---- MODULE Spec2Model ----
(***************************************************************************)
(* A model of the sstb sorted-string-table library: the on-disk format,    *)
(* the streaming writer, the three readers (SSTableReader,                 *)
(* ConcurrentSSTableReader, MmapUncompressedSSTableReader), the page       *)
(* caches and the sharded concurrent LRU.                                  *)
(*                                                                         *)
(* Files are sequences of bytes (naturals below 256).  A file position p   *)
(* (0-based, as in the code) is element p + 1 of the sequence.             *)
(***************************************************************************)
EXTENDS Integers, Sequences, FiniteSets, TLC

(***************************************************************************)
(* Bounds of the model.                                                    *)
(***************************************************************************)
\* most records one writer is given
MaxItems == 2
\* bytes of the Bloom bitmap the writer is configured with
BloomBytes == 1
\* hash functions of the Bloom filter
BloomHashes == 2

\* keys the caller may set, and the values that go with them
KeyPool == {<<1>>, <<1, 1>>, <<2>>}
ValuePool == {<<7>>, <<>>}
\* flush_every settings: one below the size of any record, one above any table
FlushPool == {1, 64}

(***************************************************************************)
(* Byte strings.                                                           *)
(***************************************************************************)
Min(a, b) == IF a < b THEN a ELSE b
Max(a, b) == IF a < b THEN b ELSE a

\* s[a..b) with 0-based positions; the caller checks the range
Slice(s, a, b) == SubSeq(s, a + 1, b)

\* <[u8] as Ord>::cmp: lexicographic, a proper prefix is smaller
RECURSIVE Cmp(_, _)
Cmp(a, b) ==
    IF a = <<>> THEN (IF b = <<>> THEN 0 ELSE -1)
    ELSE IF b = <<>> THEN 1
    ELSE IF Head(a) < Head(b) THEN -1
    ELSE IF Head(a) > Head(b) THEN 1
    ELSE Cmp(Tail(a), Tail(b))

\* bincode's fixed-width little-endian integers
RECURSIVE LE(_, _)
LE(n, w) == IF w = 0 THEN <<>> ELSE <<n % 256>> \o LE(n \div 256, w - 1)

RECURSIVE FromLE(_)
FromLE(bs) == IF bs = <<>> THEN 0 ELSE Head(bs) + 256 * FromLE(Tail(bs))

RECURSIVE SumBytes(_)
SumBytes(bs) == IF bs = <<>> THEN 0 ELSE Head(bs) + SumBytes(Tail(bs))

\* s with the bytes of t written at 0-based position p (the file grows if needed)
Overwrite(s, p, t) ==
    [i \in 1..Max(Len(s), p + Len(t)) |->
        IF i > p /\ i <= p + Len(t) THEN t[i - p]
        ELSE IF i <= Len(s) THEN s[i] ELSE 0]

(***************************************************************************)
(* On-disk format (ondisk_format.rs): bincode, little-endian, no padding.  *)
(***************************************************************************)
MAGIC == <<128, 76, 83, 77>>
KeyLengthSize == 2
ValueLengthSize == 4
OffsetSize == 8
\* Compression as bincode writes the enum: the variant's index, a u32
CompressionNone == 0
CompressionZlib == 1
CompressionSnappy == 2

\* the version tag the readers accept
VERSION_20 == [major |-> 2, minor |-> 0]
VersionBytes(v) == LE(v.major, 2) \o LE(v.minor, 2)

KVLength_encoded_size == KeyLengthSize + ValueLengthSize
KVOffset_encoded_size == KeyLengthSize + OffsetSize

\* KVLength { key_length: u16, value_length: u32 } as serialize_into writes it
KVLength_bytes(k, v) == LE(k, KeyLengthSize) \o LE(v, ValueLengthSize)
\* KVOffset { key_length: u16, offset: u64 }
KVOffset_bytes(k, off) == LE(k, KeyLengthSize) \o LE(off, OffsetSize)

\* a placeholder that already claims the table is finished
MetaDefault_finished ==
    [data_len |-> 0, index_len |-> 0, bloom_len |-> 0, items |-> 0,
     compression |-> 0, finished |-> TRUE, checksum |-> 0,
     bitmap_bits |-> 0, k_num |-> 0, sip_keys |-> <<0, 0, 0, 0>>]

\* MetaV2_0::default(): the placeholder written when the file is opened
MetaDefault ==
    [data_len |-> 0, index_len |-> 0, bloom_len |-> 0, items |-> 0,
     compression |-> CompressionNone, finished |-> FALSE, checksum |-> 0,
     bitmap_bits |-> 0, k_num |-> 0, sip_keys |-> <<0, 0, 0, 0>>]

\* an encoding whose size depends on a field: true takes two bytes
MetaBytes_wide_true(m) ==
    LE(m.data_len, 8) \o LE(m.index_len, 8) \o LE(m.bloom_len, 8) \o LE(m.items, 8)
    \o LE(m.compression, 4) \o (IF m.finished THEN <<1, 0>> ELSE <<0>>) \o LE(m.checksum, 4)
    \o LE(m.bitmap_bits, 8) \o LE(m.k_num, 4)
    \o LE(m.sip_keys[1], 8) \o LE(m.sip_keys[2], 8)
    \o LE(m.sip_keys[3], 8) \o LE(m.sip_keys[4], 8)

\* MetaV2_0 with its nested BloomV2_0, field by field
MetaBytes(m) ==
    LE(m.data_len, 8) \o LE(m.index_len, 8) \o LE(m.bloom_len, 8) \o LE(m.items, 8)
    \o LE(m.compression, 4) \o <<IF m.finished THEN 1 ELSE 0>> \o LE(m.checksum, 4)
    \o LE(m.bitmap_bits, 8) \o LE(m.k_num, 4)
    \o LE(m.sip_keys[1], 8) \o LE(m.sip_keys[2], 8)
    \o LE(m.sip_keys[3], 8) \o LE(m.sip_keys[4], 8)

MetaSize == Len(MetaBytes(MetaDefault))
PreambleSize == Len(MAGIC) + Len(VersionBytes(VERSION_20))
\* position of the finished byte inside the serialized meta struct
FinishedFieldOffset == 8 + 8 + 8 + 8 + 4

\* bincode::deserialize_from::<MetaV2_0>: fails on a short input, on a bool
\* byte other than 0 or 1 and on an unknown enum variant
MetaParse(bs) ==
    IF Len(bs) < MetaSize THEN [ok |-> FALSE, meta |-> MetaDefault]
    ELSE LET comp == FromLE(Slice(bs, 32, 36))
             fin == bs[FinishedFieldOffset + 1]
         IN IF comp > CompressionSnappy \/ fin > 1
            THEN [ok |-> FALSE, meta |-> MetaDefault]
            ELSE [ok |-> TRUE,
                  meta |-> [data_len |-> FromLE(Slice(bs, 0, 8)),
                            index_len |-> FromLE(Slice(bs, 8, 16)),
                            bloom_len |-> FromLE(Slice(bs, 16, 24)),
                            items |-> FromLE(Slice(bs, 24, 32)),
                            compression |-> comp,
                            finished |-> (fin = 1),
                            checksum |-> FromLE(Slice(bs, 37, 41)),
                            bitmap_bits |-> FromLE(Slice(bs, 41, 49)),
                            k_num |-> FromLE(Slice(bs, 49, 53)),
                            sip_keys |-> <<FromLE(Slice(bs, 53, 61)),
                                           FromLE(Slice(bs, 61, 69)),
                                           FromLE(Slice(bs, 69, 77)),
                                           FromLE(Slice(bs, 77, 85))>>]]

(***************************************************************************)
(* Results.  Every fallible call yields a record with a tag; "Panic" is a  *)
(* Rust panic (an out-of-range slice, an overflow in a checked build).     *)
(***************************************************************************)
Some(v) == [tag |-> "Some", val |-> v]
None == [tag |-> "None", val |-> <<>>]
Err(kind) == [tag |-> kind, val |-> <<>>]
INVALID_DATA == Err("InvalidData")
Panic == [tag |-> "Panic", val |-> <<>>]

(***************************************************************************)
(* Zlib (flate2), as far as the library relies on it: a stream is a header *)
(* byte, blocks of stored bytes each led by its length, and a trailer of   *)
(* an end marker and a checksum of the data.  A flush emits the pending    *)
(* input as a block; finish also emits the trailer.                        *)
(***************************************************************************)
ZHeader == 120
ZEnd == 255
ZModulus == 251

ZNew == [started |-> FALSE, pend |-> <<>>, sum |-> 0]
ZWrite(e, bs) == [e EXCEPT !.pend = @ \o bs, !.sum = (@ + SumBytes(bs)) % ZModulus]
ZHead(e) == IF e.started THEN <<>> ELSE <<ZHeader>>
\* ZlibEncoder::flush: a sync point, emitted also when nothing is pending
ZFlushOut(e) == ZHead(e) \o <<Len(e.pend)>> \o e.pend
ZFlush(e) == [e EXCEPT !.started = TRUE, !.pend = <<>>]
\* ZlibEncoder::finish / flush_finish
ZFinishOut(e) ==
    ZHead(e) \o (IF e.pend = <<>> THEN <<>> ELSE <<Len(e.pend)>> \o e.pend)
    \o <<ZEnd, e.sum>>

\* flate2::read::ZlibDecoder read to the end: a bad header or checksum is an
\* error; input that ends early yields what was decoded so far
RECURSIVE ZBlocks(_, _, _, _)
ZBlocks(buf, pos, out, sum) ==
    IF pos >= Len(buf) THEN [ok |-> TRUE, out |-> out]
    ELSE IF buf[pos + 1] = ZEnd
    THEN IF pos + 1 >= Len(buf) THEN [ok |-> TRUE, out |-> out]
         ELSE IF buf[pos + 2] = sum THEN [ok |-> TRUE, out |-> out]
         ELSE [ok |-> FALSE, out |-> <<>>]
    ELSE LET n == buf[pos + 1]
             data == Slice(buf, pos + 1, Min(pos + 1 + n, Len(buf)))
         IN ZBlocks(buf, pos + 1 + n, out \o data, (sum + SumBytes(data)) % ZModulus)

ZlibDecode(buf) ==
    IF buf = <<>> THEN [ok |-> TRUE, out |-> <<>>]
    ELSE IF buf[1] # ZHeader THEN [ok |-> FALSE, out |-> <<>>]
    ELSE ZBlocks(buf, 1, <<>>, 0)

\* compression.rs: Uncompress::uncompress for the table's algorithm
Uncompress(comp, buf) ==
    IF comp = CompressionNone THEN Some(buf)
    ELSE LET d == ZlibDecode(buf)
         IN IF d.ok THEN Some(d.out) ELSE Err("Io")

(***************************************************************************)
(* Bloom filter (the bloomfilter crate): k_num bit positions per key by    *)
(* double hashing over two keyed hashes; the bitmap is stored byte by byte.*)
(***************************************************************************)
HashModulus == 65521

RECURSIVE KeyedHash(_, _, _)
KeyedHash(key, k0, k1) ==
    IF key = <<>> THEN (k0 + 1) % HashModulus
    ELSE (KeyedHash(SubSeq(key, 1, Len(key) - 1), k0, k1) * 33 + key[Len(key)] + k1)
         % HashModulus

BloomBit(key, i, nbits, sip) ==
    (KeyedHash(key, sip[1], sip[2]) + i * KeyedHash(key, sip[3], sip[4])) % nbits

\* Bloom::set
BloomSet(bits, key, nbits, k, sip) ==
    bits \cup {BloomBit(key, i, nbits, sip) : i \in 0..(k - 1)}
\* Bloom::check
BloomCheck(bits, key, nbits, k, sip) ==
    \A i \in 0..(k - 1) : BloomBit(key, i, nbits, sip) \in bits

RECURSIVE Pow2(_)
Pow2(n) == IF n = 0 THEN 1 ELSE 2 * Pow2(n - 1)
RECURSIVE SumSet(_)
SumSet(S) == IF S = {} THEN 0 ELSE LET x == CHOOSE y \in S : TRUE IN x + SumSet(S \ {x})

\* Bloom::bitmap: bit b lives in byte b / 8
BloomBitmap(bits, nbytes) ==
    [j \in 1..nbytes |-> SumSet({Pow2(b % 8) : b \in {c \in bits : c \div 8 = j - 1}})]
\* the bitmap read with the bits of every byte in the opposite order
BloomFromBitmap_msb(bytes) ==
    {b \in 0..(8 * Len(bytes) - 1) : (bytes[(b \div 8) + 1] \div Pow2(7 - (b % 8))) % 2 = 1}
\* Bloom::from_existing
BloomFromBitmap(bytes) ==
    {b \in 0..(8 * Len(bytes) - 1) : (bytes[(b \div 8) + 1] \div Pow2(b % 8)) % 2 = 1}

(***************************************************************************)
(* Writer (writer.rs).  A writer value w carries the fields of the struct, *)
(* the state of its compression context writer (pos is the PosWriter's     *)
(* offset, enc the Zlib encoder) and out, the bytes the current call has   *)
(* handed to the BufWriter.                                                *)
(***************************************************************************)
\* the algorithms writer.rs has a context writer for
WriterCompressions == {CompressionNone, CompressionZlib}

\* a map that keeps its entries in the order of their arrival, the latest first
BTreeInsert_front(m, key, off) == <<[key |-> key, off |-> off]>> \o m
\* BTreeMap::insert on a map kept as a key-ordered sequence of entries
BTreeInsert(m, key, off) ==
    LET below == SelectSeq(m, LAMBDA e : Cmp(e.key, key) < 0)
        above == SelectSeq(m, LAMBDA e : Cmp(e.key, key) > 0)
    IN below \o <<[key |-> key, off |-> off]>> \o above

\* one record of the data region: the length header, the key, the value
RecordBytes(key, value) == KVLength_bytes(Len(key), Len(value)) \o key \o value
\* the bytes of a sequence of records
RECURSIVE RecordsBytes(_)
RecordsBytes(recs) ==
    IF recs = <<>> THEN <<>>
    ELSE RecordBytes(Head(recs).key, Head(recs).value) \o RecordsBytes(Tail(recs))

\* one entry of the index region: key length and chunk offset, then the key
IndexEntryBytes(e) == KVOffset_bytes(Len(e.key), e.off) \o e.key

RECURSIVE IndexBytes(_)
IndexBytes(m) == IF m = <<>> THEN <<>> ELSE IndexEntryBytes(Head(m)) \o IndexBytes(Tail(m))

\* Write::write_all on the context writer: straight through, or into the encoder
write_all(w, bs) ==
    IF w.comp = CompressionNone
    THEN [w EXCEPT !.pos = @ + Len(bs), !.out = @ \o bs]
    ELSE [w EXCEPT !.enc = ZWrite(@, bs)]

\* ZlibWriter::get_flushed_writer
get_flushed_writer(w) ==
    LET o == ZFlushOut(w.enc)
    IN [w EXCEPT !.enc = ZFlush(@), !.pos = @ + Len(o), !.out = @ \o o]

\* CompressionContextWriter::relative_offset.  val is the usize difference as
\* an integer: a negative val is a subtraction that went below zero
relative_offset(w) ==
    IF w.comp = CompressionNone
    THEN [w |-> w, val |-> w.pos - w.initial]
    ELSE LET f == get_flushed_writer(w)
         IN [w |-> f, val |-> w.initial - f.pos]

\* a compression context begins at offset at: the records written from here
\* on, up to the next reset, are one chunk (chunks is the history of the
\* contexts, not a field of the struct)
new_context(w, at) == [w EXCEPT !.chunks = Append(@, [start |-> at, recs |-> <<>>])]

\* the offset is reported and the context goes on
reset_compression_context_same(w) == [w |-> w, val |-> w.pos]

\* the encoder is flushed, not finished, and goes on with the same stream
reset_compression_context_flush(w) ==
    IF w.comp = CompressionNone
    THEN [w |-> new_context(w, w.pos), val |-> w.pos]
    ELSE LET f == get_flushed_writer(w)
         IN [w |-> new_context(f, f.pos), val |-> f.pos]

\* CompressionContextWriter::reset_compression_context
reset_compression_context(w) ==
    IF w.comp = CompressionNone
    THEN [w |-> new_context(w, w.pos), val |-> w.pos]
    ELSE LET o == ZFinishOut(w.enc)
             f == [w EXCEPT !.enc = ZNew, !.pos = @ + Len(o), !.out = @ \o o]
         IN [w |-> new_context(f, f.pos), val |-> f.pos]

\* CompressionContextWriter::into_inner
into_inner(w) ==
    IF w.comp = CompressionNone THEN w
    ELSE LET o == ZFinishOut(w.enc)
         IN [w EXCEPT !.enc = ZNew, !.pos = @ + Len(o), !.out = @ \o o]

\* the first bytes of every table: magic and version
Preamble == MAGIC \o VersionBytes(VERSION_20)

\* SSTableWriter::new: magic, version, the placeholder meta struct
SSTableWriter_new(comp, flush_every, checks, sip) ==
    LET meta == [MetaDefault EXCEPT !.compression = comp]
        head == Preamble \o MetaBytes(meta)
    IN [st |-> "open", comp |-> comp, checks |-> checks, flush_every |-> flush_every,
        meta |-> meta, meta_start |-> Len(Preamble), data_start |-> Len(head),
        sparse_index |-> <<>>, pos |-> Len(head), initial |-> Len(head),
        enc |-> ZNew, bloom |-> {}, sip |-> sip, written |-> <<>>,
        chunks |-> <<[start |-> Len(head), recs |-> <<>>]>>, out |-> head]

\* the chunk test of set: relative_offset()? + value.len() >= flush_every.
\* Without overflow checks usize arithmetic wraps, so a sum that is still
\* negative stands for a number near 2^64
ChunkIsFull(rel, vlen, flush_every) ==
    LET sum == rel + vlen
    IN sum < 0 \/ sum >= flush_every

\* the Bloom filter learns the key
BloomInsert(w, key) ==
    [w EXCEPT !.bloom = BloomSet(@, key, BloomBytes * 8, BloomHashes, w.sip)]

\* RawSSTableWriter::set
SSTableWriter_set(w, key, value) ==
    LET r == relative_offset(w)
    IN IF r.val < 0 /\ w.checks THEN [r.w EXCEPT !.st = "panicked"]
       ELSE LET x == reset_compression_context(r.w)
                w2 == IF ChunkIsFull(r.val, Len(value), w.flush_every) \/ w.meta.items = 0
                      THEN [x.w EXCEPT !.sparse_index = BTreeInsert(@, key, x.val)]
                      ELSE r.w
                w3 == write_all(BloomInsert(w2, key), RecordBytes(key, value))
            IN [w3 EXCEPT !.meta.items = @ + 1,
                          !.written = Append(@, [key |-> key, value |-> value]),
                          !.chunks[Len(w3.chunks)].recs =
                              Append(@, [key |-> key, value |-> value])]

\* the Bloom region: the bitmap in a frame of its own
write_bloom(w) ==
    reset_compression_context(write_all(w, BloomBitmap(w.bloom, BloomBytes)))

\* write_index up to the seek: the index region, the Bloom region, the meta
\* struct filled in, the compression context unwrapped
SSTableWriter_write_index(w) ==
    LET a == reset_compression_context(w)
        index_start == a.val
        b == reset_compression_context(write_all(a.w, IndexBytes(w.sparse_index)))
        index_len == b.val - index_start
        c == write_bloom(b.w)
        meta == [w.meta EXCEPT !.finished = TRUE,
                               !.index_len = index_len,
                               !.data_len = index_start - w.data_start,
                               !.bloom_len = c.val - b.val,
                               !.bitmap_bits = BloomBytes * 8,
                               !.k_num = BloomHashes,
                               !.sip_keys = w.sip]
    IN [into_inner(c.w) EXCEPT !.meta = meta, !.st = "indexed"]

(***************************************************************************)
(* Reader, pure parts (ondisk_format.rs, reader.rs).                       *)
(***************************************************************************)
\* the bytes find_value_offset_v2 hands to bincode for the record at offset:
\* bincode::deserialize::<KVLength>(&buf) is given the whole chunk
kvlength_source(buf, offset) == buf

Found(start, end) == [tag |-> "Some", start |-> start, end |-> end]
NotFound(tag) == [tag |-> tag, start |-> 0, end |-> 0]

\* find_value_offset_v2: the loop from a given offset on
RECURSIVE find_value_offset_from(_, _, _)
find_value_offset_from(buf, key, offset) ==
    IF offset >= Len(buf) THEN NotFound("None")
    ELSE LET src == kvlength_source(buf, offset)
         IN IF Len(src) < KVLength_encoded_size THEN NotFound("Bincode")
            ELSE LET key_length == FromLE(Slice(src, 0, KeyLengthSize))
                     value_length == FromLE(Slice(src, KeyLengthSize, KVLength_encoded_size))
                     key_start == offset + KVLength_encoded_size
                     key_end == key_start + key_length
                     value_end == key_end + value_length
                 IN IF key_end > Len(buf) THEN NotFound("InvalidData")
                    ELSE LET c == Cmp(Slice(buf, key_start, key_end), key)
                         IN IF c = 0 THEN Found(key_end, value_end)
                            ELSE IF c > 0 THEN NotFound("None")
                            ELSE find_value_offset_from(buf, key, value_end)

find_value_offset_v2(buf, key) == find_value_offset_from(buf, key, 0)

\* the left bound taken below the query, the query itself left out
find_bounds_below(map, key, end_default) ==
    LET left == SelectSeq(map, LAMBDA e : Cmp(e.key, key) < 0)
        right == SelectSeq(map, LAMBDA e : Cmp(e.key, key) > 0)
    IN IF left = <<>> THEN [some |-> FALSE, start |-> 0, end |-> 0]
       ELSE [some |-> TRUE, start |-> left[Len(left)].off,
             end |-> IF right = <<>> THEN end_default ELSE right[1].off]

\* find_bounds on the ordered index: the offset of the greatest key <= the
\* query and the offset of the least key above it (or end_default)
find_bounds(map, key, end_default) ==
    LET left == SelectSeq(map, LAMBDA e : Cmp(e.key, key) <= 0)
        right == SelectSeq(map, LAMBDA e : Cmp(e.key, key) > 0)
    IN IF left = <<>> THEN [some |-> FALSE, start |-> 0, end |-> 0]
       ELSE [some |-> TRUE, start |-> left[Len(left)].off,
             end |-> IF right = <<>> THEN end_default ELSE right[1].off]

IndexOk(m) == [tag |-> "Ok", index |-> m]
IndexErr(tag) == [tag |-> tag, index |-> <<>>]

\* MemIndex::from_static_buf: the loop over the remaining index bytes
RECURSIVE MemIndex_parse(_, _)
MemIndex_parse(index_data, index) ==
    IF index_data = <<>> THEN IndexOk(index)
    ELSE IF Len(index_data) < KVOffset_encoded_size THEN IndexErr("InvalidData")
    ELSE LET key_length == FromLE(Slice(index_data, 0, KeyLengthSize))
             offset == FromLE(Slice(index_data, KeyLengthSize, KVOffset_encoded_size))
             key_end == KVOffset_encoded_size + key_length
         IN IF key_end > Len(index_data) THEN IndexErr("InvalidData")
            ELSE MemIndex_parse(Slice(index_data, key_end, Len(index_data)),
                     BTreeInsert(index, Slice(index_data, KVOffset_encoded_size, key_end), offset))

\* an index built without a look at the expected length
MemIndex_from_static_buf_any_len(buf, expected_len) == MemIndex_parse(buf, <<>>)

\* MemIndex::from_static_buf
MemIndex_from_static_buf(buf, expected_len) ==
    IF Len(buf) # expected_len THEN IndexErr("InvalidData")
    ELSE MemIndex_parse(buf, <<>>)

\* OwnedIndex::from_reader: entries until the stream ends between two entries
RECURSIVE OwnedIndex_parse(_, _)
OwnedIndex_parse(stream, index) ==
    IF stream = <<>> THEN IndexOk(index)
    ELSE IF Len(stream) < KVOffset_encoded_size THEN IndexErr("Bincode")
    ELSE LET key_length == FromLE(Slice(stream, 0, KeyLengthSize))
             offset == FromLE(Slice(stream, KeyLengthSize, KVOffset_encoded_size))
             key_end == KVOffset_encoded_size + key_length
         IN IF key_end > Len(stream) THEN IndexErr("Io")
            ELSE OwnedIndex_parse(Slice(stream, key_end, Len(stream)),
                     BTreeInsert(index, Slice(stream, KVOffset_encoded_size, key_end), offset))

\* an index reader for which the end of the stream before the first entry
\* is an error
OwnedIndex_from_reader_eof_fails(stream) ==
    IF stream = <<>> THEN IndexErr("Bincode") ELSE OwnedIndex_parse(stream, <<>>)

OwnedIndex_from_reader(stream) == OwnedIndex_parse(stream, <<>>)

\* a reader that looks at the major number alone
version_supported_major(bs) == Slice(bs, 0, 2) = LE(VERSION_20.major, 2)
\* read_metadata: match version { VERSION_20 => .., _ => UnsupportedVersion }
version_supported(bs) == bs = VersionBytes(VERSION_20)

\* read_metadata: magic, version, meta struct; offset is where the data starts
read_metadata(file) ==
    LET fail(tag) == [tag |-> tag, meta |-> MetaDefault, offset |-> 0]
    IN IF Len(file) < Len(MAGIC) THEN fail("InvalidData")
       ELSE IF Slice(file, 0, Len(MAGIC)) # MAGIC THEN fail("InvalidData")
       ELSE IF Len(file) < PreambleSize THEN fail("Bincode")
       ELSE IF ~version_supported(Slice(file, Len(MAGIC), PreambleSize))
       THEN fail("UnsupportedVersion")
       ELSE LET m == MetaParse(Slice(file, PreambleSize, Min(Len(file), PreambleSize + MetaSize)))
            IN IF m.ok THEN [tag |-> "Ok", meta |-> m.meta, offset |-> PreambleSize + MetaSize]
               ELSE fail("Bincode")

\* read_bloom: the bitmap of bitmap_bits / 8 bytes from the stream; a stream
\* that cannot be decoded fails the first read that needs a byte of it
read_bloom(stream, meta) ==
    IF meta.bitmap_bits % 8 > 0 THEN [tag |-> "InvalidData", bits |-> {}]
    ELSE LET len == meta.bitmap_bits \div 8
         IN IF len = 0 THEN [tag |-> "Ok", bits |-> {}]
            ELSE IF ~stream.ok \/ Len(stream.out) < len THEN [tag |-> "Io", bits |-> {}]
            ELSE [tag |-> "Ok", bits |-> BloomFromBitmap(Slice(stream.out, 0, len))]

\* Bloom::check on the filter a reader holds
reader_bloom_check(bits, meta, key) ==
    BloomCheck(bits, key, meta.bitmap_bits, meta.k_num, meta.sip_keys)

\* the part of the file a Take of len bytes at position pos can deliver
FileTake(file, pos, len) == Slice(file, Min(pos, Len(file)), Min(pos + len, Len(file)))

\* pread_exact: every pread is handed the whole buffer; first is the size of
\* a short first read the operating system answers with (0: none is short)
RECURSIVE pread_loop(_, _, _, _, _, _)
pread_loop(file, buf, remaining, offset, first, checked) ==
    IF remaining = 0 THEN Some(buf)
    ELSE LET avail == Min(Len(buf), Max(0, Len(file) - offset))
             size == IF first > 0 THEN Min(first, avail) ELSE avail
         IN IF size = 0 THEN INVALID_DATA
            ELSE IF size > remaining /\ checked THEN Panic
            ELSE pread_loop(file, Overwrite(buf, 0, Slice(file, offset, offset + size)),
                            remaining - size, offset + size, 0, checked)

pread_exact(file, offset, length, first, checked) ==
    pread_loop(file, [i \in 1..length |-> 0], length, offset, first, checked)

(***************************************************************************)
(* LRU caches (the lru crate): a sequence of entries, most recent first.   *)
(* cap = 0 is LruCache::unbounded.  An entry of the concurrent cache may   *)
(* be installed but not yet filled.                                        *)
(***************************************************************************)
LruHas(l, k) == \E i \in 1..Len(l) : l[i].key = k
LruEntry(l, k) == l[CHOOSE i \in 1..Len(l) : l[i].key = k]
LruWithout(l, k) == SelectSeq(l, LAMBDA e : e.key # k)
\* LruCache::get: a hit moves the entry to the front
LruTouch(l, k) == IF LruHas(l, k) THEN <<LruEntry(l, k)>> \o LruWithout(l, k) ELSE l
\* LruCache::put: at capacity the least recent entry leaves
LruPut(l, cap, e) ==
    IF LruHas(l, e.key) THEN <<e>> \o LruWithout(l, e.key)
    ELSE IF cap > 0 /\ Len(l) >= cap THEN <<e>> \o SubSeq(l, 1, cap - 1)
    ELSE <<e>> \o l

(***************************************************************************)
(* Read options and page caches (options.rs, page_cache.rs,                *)
(* concurrent_lru.rs, concurrent_page_cache.rs).                           *)
(***************************************************************************)
\* capacity of a bounded cache the model configures: ReadCache::Blocks(n)
CacheBlocks == 1
\* shards of a concurrent cache: ReadOptions::thread_buckets
ThreadBuckets == 2

CacheOff == [kind |-> "None", n |-> 0]
CacheUnbounded == [kind |-> "Unbounded", n |-> 0]
CacheBounded == [kind |-> "Blocks", n |-> CacheBlocks]
\* ReadOptions::cache: Option<ReadCache>
CachePool == {CacheOff, CacheUnbounded, CacheBounded}

\* Option::unwrap_or_default on the cache option: Unbounded
unwrap_or_default(c) == IF c.kind = "None" THEN CacheUnbounded ELSE c

\* a cache layer: on = FALSE is a layer that hands every call to its source
NoCache == [on |-> FALSE, cap |-> 0, shards |-> <<>>]
\* a cache that is built whatever the option says
NewCache_for_none_too(c, count) ==
    [on |-> TRUE, cap |-> c.n, shards |-> [i \in 1..count |-> <<>>]]

\* ReadCache::lru in count shards
NewCache(c, count) ==
    IF c.kind = "None" THEN NoCache
    ELSE [on |-> TRUE, cap |-> c.n, shards |-> [i \in 1..count |-> <<>>]]

Filled(offset, bytes) == [key |-> offset, full |-> TRUE, bytes |-> bytes]
Installed(offset) == [key |-> offset, full |-> FALSE, bytes |-> <<>>]

\* the shard of an offset: its hash modulo the number of shards
ShardOf(offset, count) == ((offset * 31 + 17) % count) + 1

\* StaticBufCache::get_chunk: a checked slice of the mapped file
StaticBufCache_get_chunk(file, offset, length) ==
    IF length < 0 \/ offset + length > Len(file) THEN INVALID_DATA
    ELSE Some(Slice(file, offset, offset + length))

\* a cache that reads the file and keeps nothing
ReadPageCache_get_chunk_no_put(pc, file, offset, length) ==
    IF length < 0 THEN [pc |-> pc, read |-> FALSE, res |-> Panic]
    ELSE IF offset + length > Len(file) THEN [pc |-> pc, read |-> TRUE, res |-> Err("Io")]
    ELSE [pc |-> pc, read |-> TRUE, res |-> Some(Slice(file, offset, offset + length))]

\* ReadPageCache::get_chunk: the cached bytes, or seek, read_exact and put;
\* read tells whether the call went to the file
ReadPageCache_get_chunk(pc, file, offset, length) ==
    LET l == pc.shards[1]
    IN IF LruHas(l, offset)
       THEN [pc |-> [pc EXCEPT !.shards[1] = LruTouch(l, offset)], read |-> FALSE,
             res |-> Some(LruEntry(l, offset).bytes)]
       ELSE IF length < 0 THEN [pc |-> pc, read |-> FALSE, res |-> Panic]
       ELSE IF offset + length > Len(file) THEN [pc |-> pc, read |-> TRUE, res |-> Err("Io")]
       ELSE LET buf == Slice(file, offset, offset + length)
            IN [pc |-> [pc EXCEPT !.shards[1] = LruPut(l, pc.cap, Filled(offset, buf))],
                read |-> TRUE, res |-> Some(buf)]

\* page_cache::WrappedCache::get_chunk over an inner cache's outcome
WrappedCache_get_chunk(wc, comp, offset, inner) ==
    LET l == wc.shards[1]
    IN IF LruHas(l, offset)
       THEN [wc |-> [wc EXCEPT !.shards[1] = LruTouch(l, offset)], hit |-> TRUE,
             res |-> Some(LruEntry(l, offset).bytes)]
       ELSE IF inner.tag # "Some" THEN [wc |-> wc, hit |-> FALSE, res |-> inner]
       ELSE LET u == Uncompress(comp, inner.val)
            IN IF u.tag # "Some" THEN [wc |-> wc, hit |-> FALSE, res |-> u]
               ELSE [wc |-> [wc EXCEPT !.shards[1] = LruPut(l, wc.cap, Filled(offset, u.val))],
                     hit |-> FALSE, res |-> u]

\* ConcurrentLRUCache::get_or_insert with Inner::get_or_insert, run by one
\* thread from start to end; func is what the closure returns if it is run
\* (`hash % caches.len()` panics when the cache has no shard)
get_or_insert(c, offset, func) ==
    IF ~c.on THEN [c |-> c, ran |-> TRUE, res |-> func]
    ELSE IF Len(c.shards) = 0 THEN [c |-> c, ran |-> FALSE, res |-> Panic]
    ELSE LET idx == ShardOf(offset, Len(c.shards))
             l == c.shards[idx]
             l1 == IF LruHas(l, offset) THEN LruTouch(l, offset)
                   ELSE LruPut(l, c.cap, Installed(offset))
             e == LruEntry(l1, offset)
         IN IF e.full THEN [c |-> [c EXCEPT !.shards[idx] = l1], ran |-> FALSE,
                            res |-> Some(e.bytes)]
            ELSE IF func.tag # "Some"
            THEN [c |-> [c EXCEPT !.shards[idx] = l1], ran |-> TRUE, res |-> func]
            ELSE [c |-> [c EXCEPT !.shards[idx] =
                             <<Filled(offset, func.val)>> \o LruWithout(l1, offset)],
                  ran |-> TRUE, res |-> func]

\* FileBackedPageCache::read_chunk
read_chunk(file, offset, length, first, checked) ==
    IF length < 0 THEN Panic ELSE pread_exact(file, offset, length, first, checked)

(***************************************************************************)
(* Readers (reader.rs): S is SSTableReader, C ConcurrentSSTableReader,     *)
(* M MmapUncompressedSSTableReader.                                        *)
(***************************************************************************)
Variants == {"S", "C", "M"}

NoReader ==
    [st |-> "none", variant |-> "S", err |-> "",
     use_mmap |-> FALSE, use_bloom |-> FALSE,
     meta |-> MetaDefault, data_start |-> 0, index |-> <<>>, bloom |-> {},
     pc |-> NoCache, wc |-> NoCache]

\* what a reader of the region reads: the bytes, through the decoder if any
region_stream(comp, raw) ==
    IF comp = CompressionNone THEN [ok |-> TRUE, out |-> raw] ELSE ZlibDecode(raw)

\* a reader that takes every table, whatever its compression
mmap_takes_any(meta) == TRUE
\* MmapUncompressedSSTableReader::new_with_options: the test of the compression
mmap_takes(meta) == meta.compression = CompressionNone

\* new_with_options of the three readers: read_metadata, then
\* InnerReader::new, ConcurrentInnerReader::new or the body of the mmap reader
reader_new(file, variant, opts) ==
    LET mr == read_metadata(file)
        meta == mr.meta
        failed(tag) == [NoReader EXCEPT !.st = "failed", !.variant = variant, !.err = tag]
        mapped == variant = "M" \/ opts.use_mmap
        index_start == mr.offset + meta.data_len
        index_end == index_start + meta.index_len
        raw == FileTake(file, index_start, meta.index_len)
        ix == IF meta.compression = CompressionNone /\ mapped
              THEN IF index_end > Len(file) THEN IndexErr("InvalidData")
                   ELSE MemIndex_from_static_buf(Slice(file, index_start, index_end),
                                                 meta.index_len)
              ELSE LET d == region_stream(meta.compression, raw)
                   IN IF d.ok THEN OwnedIndex_from_reader(d.out) ELSE IndexErr("Bincode")
        bloom_pos == IF meta.compression = CompressionNone /\ mapped THEN index_end
                     ELSE index_start + Len(raw)
        bl == read_bloom(region_stream(meta.compression,
                                       FileTake(file, bloom_pos, meta.bloom_len)), meta)
        count == IF variant = "C" THEN ThreadBuckets ELSE 1
        cache == IF variant = "C" THEN opts.cache ELSE unwrap_or_default(opts.cache)
    IN IF mr.tag # "Ok" THEN failed(mr.tag)
       ELSE IF variant = "M" /\ ~mmap_takes(meta)
       THEN failed("CantUseCompressedFileWithMultiThreadedMmap")
       ELSE IF ix.tag # "Ok" THEN failed(ix.tag)
       ELSE IF bl.tag # "Ok" THEN failed(bl.tag)
       ELSE [st |-> "ready", variant |-> variant, err |-> "",
             use_mmap |-> mapped, use_bloom |-> opts.use_bloom,
             meta |-> meta, data_start |-> mr.offset, index |-> ix.index,
             bloom |-> bl.bits,
             pc |-> IF mapped THEN NoCache ELSE NewCache(cache, count),
             wc |-> IF variant = "M" \/ meta.compression = CompressionNone THEN NoCache
                    ELSE NewCache(cache, count)]

\* the inner cache is asked on every call, hit or miss
inner_after_asked(hit, before, asked) == asked
\* the inner cache after a call of the wrapping cache: a hit of the wrapping
\* cache returns before self.inner.get_chunk is reached
inner_after(hit, before, asked) == IF hit THEN before ELSE asked

\* InnerReader's page cache: ReadPageCache or StaticBufCache, wrapped by the
\* uncompressing cache when the table is compressed
S_get_chunk(rd, file, offset, length) ==
    LET inner == IF rd.use_mmap
                 THEN [pc |-> rd.pc, read |-> FALSE,
                       res |-> StaticBufCache_get_chunk(file, offset, length)]
                 ELSE ReadPageCache_get_chunk(rd.pc, file, offset, length)
    IN IF rd.meta.compression = CompressionNone
       THEN [pc |-> inner.pc, wc |-> rd.wc, read |-> inner.read, res |-> inner.res]
       ELSE LET o == WrappedCache_get_chunk(rd.wc, rd.meta.compression, offset, inner.res)
            IN [pc |-> inner_after(o.hit, rd.pc, inner.pc), wc |-> o.wc,
                read |-> IF o.hit THEN FALSE ELSE inner.read, res |-> o.res]

\* ConcurrentInnerReader's page cache: FileBackedPageCache or StaticBufCache,
\* wrapped by concurrent_page_cache::WrappedCache when compressed
C_get_chunk(rd, file, offset, length, first, checked) ==
    LET i == IF rd.use_mmap
             THEN [c |-> rd.pc, ran |-> TRUE,
                   res |-> StaticBufCache_get_chunk(file, offset, length)]
             ELSE get_or_insert(rd.pc, offset,
                                read_chunk(file, offset, length, first, checked))
        f == IF i.res.tag = "Some" THEN Uncompress(rd.meta.compression, i.res.val)
             ELSE i.res
        o == get_or_insert(rd.wc, offset, f)
    IN IF rd.meta.compression = CompressionNone
       THEN [pc |-> i.c, wc |-> rd.wc, read |-> ~rd.use_mmap /\ i.ran, res |-> i.res]
       ELSE [pc |-> inner_after(~o.ran, rd.pc, i.c), wc |-> o.c,
             read |-> ~rd.use_mmap /\ o.ran /\ i.ran, res |-> o.res]

\* the end of get: locate the value in the chunk and slice it out
value_of(chunk, key) ==
    LET f == find_value_offset_v2(chunk, key)
    IN IF f.tag = "Some"
       THEN IF f.end > Len(chunk) THEN Panic ELSE Some(Slice(chunk, f.start, f.end))
       ELSE IF f.tag = "None" THEN None
       ELSE Err(f.tag)

\* the right bound of the last chunk taken at the end of the index region
reader_index_start_past(rd) == rd.data_start + rd.meta.data_len + rd.meta.index_len
\* get_with_options: let index_start = self.data_start + self.meta.data_len
reader_index_start(rd) == rd.data_start + rd.meta.data_len

\* Option<GetOptions>: None, or Some(GetOptions { use_bloom })
NoOptions == [given |-> FALSE, use_bloom |-> FALSE]
GetOptionsPool == {[given |-> TRUE, use_bloom |-> b] : b \in BOOLEAN}

\* the reader's default, whatever the call says
use_bloom_default_only(options, use_bloom_default) == use_bloom_default
\* options.map(|o| o.use_bloom).unwrap_or(self.use_bloom_default)
use_bloom_in_effect(options, use_bloom_default) ==
    IF options.given THEN options.use_bloom ELSE use_bloom_default

\* get_with_options of the three readers; asked is the (offset, length) the
\* call asked of the page cache, if it came to that
get_with_options(rd, file, key, options, first, checked) ==
    LET same(res) == [pc |-> rd.pc, wc |-> rd.wc, res |-> res, asked |-> <<>>]
        use_bloom == use_bloom_in_effect(options, rd.use_bloom)
        b == find_bounds(rd.index, key, reader_index_start(rd))
        length == b.end - b.start
        chunk == IF rd.variant = "S" THEN S_get_chunk(rd, file, b.start, length)
                 ELSE C_get_chunk(rd, file, b.start, length, first, checked)
    IN IF use_bloom /\ rd.meta.k_num > 0 /\ rd.meta.bitmap_bits = 0 THEN same(Panic)
       ELSE IF use_bloom /\ ~reader_bloom_check(rd.bloom, rd.meta, key) THEN same(None)
       ELSE IF ~b.some THEN same(None)
       ELSE IF rd.variant = "M"
       THEN IF b.start > b.end \/ b.end > Len(file) THEN same(Panic)
            ELSE same(value_of(Slice(file, b.start, b.end), key))
       ELSE IF length < 0 /\ checked THEN same(Panic)
       ELSE [pc |-> chunk.pc, wc |-> chunk.wc, asked |-> <<b.start, length>>,
             res |-> IF chunk.res.tag # "Some" THEN chunk.res
                     ELSE value_of(chunk.res.val, key)]

(***************************************************************************)
(* The table's life: one writer builds the file through a BufWriter, then  *)
(* one reader opens it and serves gets.                                    *)
(***************************************************************************)
VARIABLES
    disk,     \* the bytes of the file
    wbuf,     \* the bytes the BufWriter holds back
    fpos,     \* the file position the BufWriter's next write goes to
    w,        \* the writer
    rd,       \* the reader
    last,     \* the latest get: its key, its outcome, the size of a short pread
    held,     \* the memory behind the value the latest get handed to the caller
    checked,  \* whether the build checks integer overflow
    caches,   \* concurrent reader: per cache layer, the LRU of every shard
    mutex,    \* concurrent reader: per cache layer, the holder of every shard's mutex
    entries,  \* concurrent reader: the Arc<Inner> values ever installed
    th,       \* concurrent reader: the threads calling get
    header,   \* the latest record header built: the lengths given, the outcome
    call,     \* the latest call of a function of the reader on its own: inputs, outcome
    obj       \* a part of the library used on its own: a compression context
              \* writer, a position wrapper over a stream, a key generator

vars == <<disk, wbuf, fpos, w, rd, last, held, checked, caches, mutex, entries, th,
          header, call, obj>>

\* capacity of the BufWriter (std's is 8 KiB; scaled to the model's tables)
BufCapacity == 100
\* the byte the benchmarks append to a written key to get a missing one
ANY_BYTE == 130

\* keys asked of a reader: the keys a writer may have set (each of them is
\* missing from some table: <<1, 1>> lies between <<1>> and <<2>> and is <<1>>
\* with one more byte), one below all and one above all
QueryPool == KeyPool \cup {<<0>>, <<2, ANY_BYTE>>}
\* sizes of a short first pread the operating system may answer with
ShortReadPool == {0, 1}
\* how a write to the file ends: done, or an error after part of the bytes
IoPool == {[ok |-> TRUE, part |-> 0], [ok |-> FALSE, part |-> 1]}
\* seeds of the Bloom filter's two keyed hashes
SipKeys == <<3, 5, 7, 11>>

NoWriter == [SSTableWriter_new(CompressionNone, 1, FALSE, SipKeys) EXCEPT !.st = "none", !.out = <<>>]
Idle ==
    [key |-> <<>>, short |-> 0, asked |-> <<>>, options |-> NoOptions,
     res |-> [tag |-> "Idle", val |-> <<>>]]

\* File::write of the BufWriter's content: all of it, or a part and an error
FileWrite(file, pos, bytes, io) ==
    IF io.ok THEN Overwrite(file, pos, bytes)
    ELSE Overwrite(file, pos, SubSeq(bytes, 1, io.part * (Len(bytes) \div 2)))

\* BufWriter::flush_buf
flush_buf(file, buf, pos, io) ==
    IF buf = <<>> THEN [disk |-> file, wbuf |-> buf, fpos |-> pos, ok |-> TRUE]
    ELSE [disk |-> FileWrite(file, pos, buf, io), wbuf |-> <<>>,
          fpos |-> pos + Len(buf), ok |-> io.ok]

\* BufWriter::write_all: flush when the bytes do not fit, write through when
\* they would fill the buffer on their own
buf_write(file, buf, pos, bytes, io) ==
    LET f == IF Len(buf) + Len(bytes) > BufCapacity THEN flush_buf(file, buf, pos, io)
             ELSE [disk |-> file, wbuf |-> buf, fpos |-> pos, ok |-> TRUE]
    IN IF ~f.ok THEN f
       ELSE IF Len(bytes) >= BufCapacity
       THEN [disk |-> FileWrite(f.disk, f.fpos, bytes, io), wbuf |-> <<>>,
             fpos |-> f.fpos + Len(bytes), ok |-> io.ok]
       ELSE [f EXCEPT !.wbuf = @ \o bytes]

\* usize, as four 16-bit limbs, the least significant first
LimbBits == 16
USizeLimbs == 4
LimbMax == Pow2(LimbBits) - 1

\* no record header has been built
NoHeader == [k |-> <<0, 0, 0, 0>>, v |-> <<0, 0, 0, 0>>, res |-> [tag |-> "Idle"]]

\* no function has been called on its own
NoCall == [fn |-> "none"]

\* no part of the library is used on its own
NoObj == [is |-> "none"]

\* no concurrent reader is at work
ConcIdle ==
    /\ caches = <<>>
    /\ mutex = <<>>
    /\ entries = <<>>
    /\ th = <<>>

Init ==
    /\ disk = <<>>
    /\ wbuf = <<>>
    /\ fpos = 0
    /\ w = NoWriter
    /\ rd = NoReader
    /\ last = Idle
    /\ held = "none"
    /\ checked \in BOOLEAN
    /\ ConcIdle
    /\ header = NoHeader
    /\ call = NoCall
    /\ obj = NoObj

\* SSTableWriter::new
New(comp, flush_every) ==
    /\ w.st = "none"
    /\ LET n == SSTableWriter_new(comp, flush_every, checked, SipKeys)
       IN /\ w' = [n EXCEPT !.out = <<>>]
          /\ disk' = <<>>
          /\ wbuf' = n.out
          /\ fpos' = 0
    /\ UNCHANGED <<rd, last, held, checked, caches, mutex, entries, th, header, call, obj>>

\* set(key, value), the caller keeping its keys strictly ascending.  A panic
\* unwinds through the writer, whose BufWriter flushes as it is dropped
Set(key, value, io) ==
    /\ w.st = "open"
    /\ Len(w.written) < MaxItems
    /\ IF w.written = <<>> THEN TRUE ELSE Cmp(w.written[Len(w.written)].key, key) < 0
    /\ LET n == SSTableWriter_set(w, key, value)
           b == buf_write(disk, wbuf, fpos, n.out, io)
           d == flush_buf(b.disk, b.wbuf, b.fpos, io)
       IN IF n.st = "panicked"
          THEN /\ w' = [n EXCEPT !.out = <<>>]
               /\ disk' = IF b.ok THEN d.disk ELSE b.disk
               /\ wbuf' = <<>>
               /\ fpos' = d.fpos
          ELSE /\ w' = [n EXCEPT !.out = <<>>, !.st = IF b.ok THEN "open" ELSE "failed"]
               /\ disk' = b.disk
               /\ wbuf' = b.wbuf
               /\ fpos' = b.fpos
    /\ UNCHANGED <<rd, last, held, checked, caches, mutex, entries, th, header, call, obj>>

\* finish, first part: the index and Bloom regions go to the BufWriter
WriteIndex(io) ==
    /\ w.st = "open"
    /\ LET n == SSTableWriter_write_index(w)
           b == buf_write(disk, wbuf, fpos, n.out, io)
       IN /\ w' = [n EXCEPT !.out = <<>>, !.st = IF b.ok THEN "indexed" ELSE "failed"]
          /\ disk' = b.disk
          /\ wbuf' = b.wbuf
          /\ fpos' = b.fpos
    /\ UNCHANGED <<rd, last, held, checked, caches, mutex, entries, th, header, call, obj>>

\* finish, second part: writer.seek(meta_start) flushes what is buffered
SeekMeta(io) ==
    /\ w.st = "indexed"
    /\ LET f == flush_buf(disk, wbuf, fpos, io)
       IN /\ w' = [w EXCEPT !.st = IF f.ok THEN "seeked" ELSE "failed"]
          /\ disk' = f.disk
          /\ wbuf' = <<>>
          /\ fpos' = IF f.ok THEN w.meta_start ELSE f.fpos
    /\ UNCHANGED <<rd, last, held, checked, caches, mutex, entries, th, header, call, obj>>

\* finish, last part: the meta struct is serialized over the placeholder and
\* the call returns Ok; the BufWriter writes it out as it is dropped and
\* nobody sees an error of that write
Backpatch(io) ==
    /\ w.st = "seeked"
    /\ LET b == buf_write(disk, wbuf, fpos, MetaBytes(w.meta), io)
           f == flush_buf(b.disk, b.wbuf, b.fpos, io)
       IN /\ w' = [w EXCEPT !.st = "finished"]
          /\ disk' = f.disk
          /\ wbuf' = <<>>
          /\ fpos' = f.fpos
    /\ UNCHANGED <<rd, last, held, checked, caches, mutex, entries, th, header, call, obj>>

\* the writer is dropped without finish
Abandon(io) ==
    /\ w.st = "open"
    /\ LET f == flush_buf(disk, wbuf, fpos, io)
       IN /\ w' = [w EXCEPT !.st = "dropped"]
          /\ disk' = f.disk
          /\ wbuf' = <<>>
          /\ fpos' = f.fpos
    /\ UNCHANGED <<rd, last, held, checked, caches, mutex, entries, th, header, call, obj>>

WriterGone == w.st \in {"finished", "failed", "panicked", "dropped"}

\* new_with_options of a reader on the file the writer left
Open(variant, opts) ==
    /\ WriterGone
    /\ rd.st = "none"
    /\ rd' = reader_new(disk, variant, opts)
    /\ UNCHANGED <<disk, wbuf, fpos, w, last, held, checked, caches, mutex, entries, th, header, call, obj>>

\* the memory behind a returned value.  SSTableReader and the mmap reader
\* lend a slice of their own memory ("borrowed": the reader cannot be dropped
\* while it is out).  The concurrent reader returns Bytes: made by
\* Bytes::from_static over the mapped file ("static": no owner, no count), or
\* by Bytes::from over a Vec ("shared": counted); an empty slice of either
\* owns no memory ("empty")
buffer_kind(r, res) ==
    IF res.tag # "Some" THEN "none"
    ELSE IF r.variant # "C" THEN "borrowed"
    ELSE IF res.val = <<>> THEN "empty"
    ELSE IF r.use_mmap /\ r.meta.compression = CompressionNone THEN "static"
    ELSE "shared"

\* what is kept of a get: the call and its outcome
Latest(key, options, short, g) ==
    [key |-> key, res |-> g.res, asked |-> g.asked, options |-> options, short |-> short]

\* get_with_options(key, options) on the open reader
GetWith(key, options, first) ==
    /\ rd.st = "ready"
    /\ LET g == get_with_options(rd, disk, key, options, first, checked)
       IN /\ rd' = [rd EXCEPT !.pc = g.pc, !.wc = g.wc,
                              !.st = IF g.res.tag = "Panic" THEN "panicked" ELSE "ready"]
          /\ last' = Latest(key, options, IF rd.variant = "C" /\ ~rd.use_mmap THEN first ELSE 0, g)
          /\ held' = buffer_kind(rd, g.res)
    /\ UNCHANGED <<disk, wbuf, fpos, w, checked, caches, mutex, entries, th, header, call, obj>>

\* get(key) on the open reader: get_with_options(key, None)
Get(key, first) == GetWith(key, NoOptions, first)

ReadOptionsPool == [cache : CachePool, use_mmap : BOOLEAN, use_bloom : BOOLEAN]

Next ==
    \/ \E comp \in WriterCompressions, fe \in FlushPool : New(comp, fe)
    \/ \E key \in KeyPool, value \in ValuePool, io \in IoPool : Set(key, value, io)
    \/ \E io \in IoPool : WriteIndex(io)
    \/ \E io \in IoPool : SeekMeta(io)
    \/ \E io \in IoPool : Backpatch(io)
    \/ \E io \in IoPool : Abandon(io)
    \/ \E variant \in Variants, opts \in ReadOptionsPool : Open(variant, opts)
    \/ \E key \in QueryPool, first \in ShortReadPool : Get(key, first)

Spec == Init /\ [][Next]_vars

(***************************************************************************)
(* A table written from start to end without an I/O failure, by a build    *)
(* without overflow checks.                                                *)
(***************************************************************************)
RECURSIVE set_all(_, _)
set_all(wr, recs) ==
    IF recs = <<>> THEN wr
    ELSE set_all(SSTableWriter_set(wr, Head(recs).key, Head(recs).value), Tail(recs))

\* new, one set per record, close
closed_writer(comp, flush_every, recs) ==
    SSTableWriter_write_index(set_all(SSTableWriter_new(comp, flush_every, FALSE, SipKeys), recs))

\* the file after close: everything written, the meta struct written over
\* the placeholder
closed_file(wr) == Overwrite(wr.out, wr.meta_start, MetaBytes(wr.meta))

\* two records; with flush_every = 1 each is a chunk
StoredRecords == <<[key |-> <<1>>, value |-> <<7>>], [key |-> <<2>>, value |-> <<>>]>>

(***************************************************************************)
(* Values handed out by get and the life of the reader: the caller may     *)
(* drop the value, and may drop the reader unless a value borrowed from it *)
(* is still out.  Dropping the reader unmaps the file (_mmap) and frees    *)
(* the caches.                                                             *)
(***************************************************************************)
OwnInit ==
    \E comp \in WriterCompressions :
        LET wr == closed_writer(comp, 1, StoredRecords)
        IN /\ disk = closed_file(wr)
           /\ wbuf = <<>>
           /\ fpos = wr.data_start
           /\ w = [wr EXCEPT !.st = "finished", !.out = <<>>]
           /\ rd = NoReader
           /\ last = Idle
           /\ held = "none"
           /\ checked \in BOOLEAN
           /\ ConcIdle
           /\ header = NoHeader
           /\ call = NoCall
           /\ obj = NoObj

\* the caller drops the value it holds
DropValue ==
    /\ held # "none"
    /\ held' = "none"
    /\ UNCHANGED <<disk, wbuf, fpos, w, rd, last, checked, caches, mutex, entries, th, header, call, obj>>

\* the caller drops the reader; the borrow checker forbids it while a
\* borrowed slice is out, and nothing forbids it while Bytes are out
DropReader ==
    /\ rd.st = "ready"
    /\ held # "borrowed"
    /\ rd' = [rd EXCEPT !.st = "closed"]
    /\ UNCHANGED <<disk, wbuf, fpos, w, last, held, checked, caches, mutex, entries, th, header, call, obj>>

OwnNext ==
    \/ \E variant \in Variants, opts \in ReadOptionsPool : Open(variant, opts)
    \/ \E key \in QueryPool, first \in ShortReadPool : Get(key, first)
    \/ \E key \in QueryPool, options \in GetOptionsPool, first \in ShortReadPool :
           GetWith(key, options, first)
    \/ DropValue
    \/ DropReader

SpecOwn == OwnInit /\ [][OwnNext]_vars

(***************************************************************************)
(* Files that no writer of this crate produced: a valid preamble and meta  *)
(* struct around one data chunk and an index region of arbitrary bytes.    *)
(***************************************************************************)
\* data chunks: a well-formed record, a cut length header, a key length and
\* a value length that run past the end of the chunk, nothing
ChunkPool ==
    { RecordBytes(<<1>>, <<7>>),
      Slice(RecordBytes(<<1>>, <<7>>), 0, 3),
      KVLength_bytes(5, 0) \o <<1>>,
      KVLength_bytes(1, 5) \o <<1, 7>>,
      <<>> }

\* index regions: an entry for the chunk, an offset past the end of the
\* file, offsets that decrease, a cut entry
IndexPool ==
    { IndexBytes(<<[key |-> <<1>>, off |-> PreambleSize + MetaSize]>>),
      IndexBytes(<<[key |-> <<1>>, off |-> PreambleSize + MetaSize + 100]>>),
      IndexBytes(<<[key |-> <<1>>, off |-> PreambleSize + MetaSize + 4],
                   [key |-> <<2>>, off |-> PreambleSize + MetaSize]>>),
      Slice(IndexBytes(<<[key |-> <<1>>, off |-> PreambleSize + MetaSize]>>), 0, 5) }

MalformedFile(chunk, index) ==
    LET meta == [MetaDefault EXCEPT !.finished = TRUE,
                                    !.data_len = Len(chunk),
                                    !.index_len = Len(index)]
    IN Preamble \o MetaBytes(meta) \o chunk \o index

\* version tags a file may carry: the one the readers know, VERSION_10 and
\* VERSION_30 of the older and the newer format, a later minor version, the
\* numbers swapped
VersionPool == {VERSION_20, [major |-> 1, minor |-> 0], [major |-> 3, minor |-> 0],
                [major |-> 2, minor |-> 1], [major |-> 0, minor |-> 2]}

\* the file with another version tag and what follows the tag: the meta
\* struct as written ("none"), a meta struct whose finished byte is no bool,
\* a file that ends inside the meta struct
Tagged(file, version, damage) ==
    LET f == Overwrite(file, Len(MAGIC), VersionBytes(version))
    IN IF damage = "bool" THEN Overwrite(f, PreambleSize + FinishedFieldOffset, <<2>>)
       ELSE IF damage = "cut" THEN Slice(f, 0, PreambleSize + FinishedFieldOffset)
       ELSE f

MalformedInit ==
    \E chunk \in ChunkPool, index \in IndexPool, version \in VersionPool,
       damage \in {"none", "bool", "cut"} :
        /\ disk = Tagged(MalformedFile(chunk, index), version, damage)
        /\ wbuf = <<>>
        /\ fpos = 0
        /\ w = [NoWriter EXCEPT !.st = "dropped"]
        /\ rd = NoReader
        /\ last = Idle
        /\ held = "none"
        /\ checked \in BOOLEAN
        /\ ConcIdle
        /\ header = NoHeader
        /\ call = NoCall
        /\ obj = NoObj

MalformedNext ==
    \/ \E variant \in Variants, opts \in ReadOptionsPool : Open(variant, opts)
    \/ \E key \in QueryPool, first \in ShortReadPool : Get(key, first)

SpecMalformed == MalformedInit /\ [][MalformedNext]_vars

(***************************************************************************)
(* Threads calling get on one ConcurrentSSTableReader without mmap         *)
(* (reader.rs, concurrent_page_cache.rs, concurrent_lru.rs).  A step of a  *)
(* thread is one lock operation or the code between two lock operations.   *)
(* caches holds, per layer, the shards' LRUs of [key, id]; id names an     *)
(* Arc<Inner> in entries.  The layer "outer" is the uncompressing          *)
(* WrappedCache, "inner" the FileBackedPageCache.                          *)
(***************************************************************************)
MaxThreads == 2
MaxGets == 3

Threads == 1..MaxThreads
Layers == {"outer", "inner"}
ConcKeys == {<<1>>, <<2>>}

\* a call that has not returned
Pending == [tag |-> "Pending", val |-> <<>>]

ThreadIdle ==
    [pc |-> "idle", key |-> <<>>, offset |-> 0, length |-> 0, layer |-> "inner",
     e |-> [L \in Layers |-> 0], chunk |-> <<>>, short |-> 0, res |-> Idle.res, n |-> 0]

\* Inner::new: no value, the RwLock free.  runs, oks, fails count the calls of
\* the closure on this entry; during counts the calls of the closure for this
\* entry's offset that returned Ok while this entry was in its shard
NewEntry(L, offset) ==
    [layer |-> L, key |-> offset, full |-> FALSE, bytes |-> <<>>,
     readers |-> {}, writer |-> 0, runs |-> 0, oks |-> 0, fails |-> 0, during |-> 0]

ConcInit ==
    \E comp \in WriterCompressions, cache \in CachePool :
        LET wr == closed_writer(comp, 1, StoredRecords)
            file == closed_file(wr)
            r == reader_new(file, "C", [cache |-> cache, use_mmap |-> FALSE,
                                        use_bloom |-> FALSE])
        IN /\ disk = file
           /\ wbuf = <<>>
           /\ fpos = wr.data_start
           /\ w = [wr EXCEPT !.st = "finished", !.out = <<>>]
           /\ rd = r
           /\ last = Idle
           /\ held = "none"
           /\ checked \in BOOLEAN
           /\ caches = [outer |-> r.wc, inner |-> r.pc]
           /\ mutex = [L \in Layers |-> [i \in 1..ThreadBuckets |-> 0]]
           /\ entries = <<>>
           /\ th = [t \in Threads |-> ThreadIdle]
           /\ header = NoHeader
           /\ call = NoCall
           /\ obj = NoObj

\* the reader has a WrappedCache over the page cache
Stacked == rd.meta.compression # CompressionNone
Top == IF Stacked THEN "outer" ELSE "inner"

\* ConcurrentLRUCache::get_or_insert, first lines: without caches the closure
\* is called at once
enter(L) == IF caches[L].on THEN "lock" ELSE "compute"

shard(L, offset) == ShardOf(offset, Len(caches[L].shards))

\* lru.get(&offset): the id of the entry under this offset, 0 if there is none
shard_get_any(l, offset) == IF l # <<>> THEN l[1].id ELSE 0
shard_get(l, offset) == IF LruHas(l, offset) THEN LruEntry(l, offset).id ELSE 0

\* the read guard goes out of scope before write() is called
drop_read_guard_kept(readers, t) == readers
drop_read_guard(readers, t) == readers \ {t}

\* the mutex guard is dropped at the end of the block that made it
drop_shard_guard_kept(m, L, i) == m
drop_shard_guard(m, L, i) == [m EXCEPT ![L][i] = 0]

\* the holder of the write guard g while func() runs
write_guard_in_func_none(t) == 0
write_guard_in_func(t) == t

\* the second look at the value, under the write lock
filled_under_write_never(e) == FALSE
filled_under_write(e) == e.full

\* the call returns res; its references to entries are dropped
returned(me, res) ==
    [ThreadIdle EXCEPT !.key = me.key, !.short = me.short, !.res = res, !.n = me.n + 1]

\* layer L hands res to its caller: the closure of the WrappedCache, or get
leave(me, L, res) ==
    IF L = "inner" /\ Stacked
    THEN IF res.tag = "Some"
         THEN [me EXCEPT !.pc = "uncompress", !.layer = "outer", !.chunk = res.val,
                         !.e["inner"] = 0]
         ELSE returned(me, res)
    ELSE IF res.tag = "Some"
         THEN [me EXCEPT !.pc = "found", !.chunk = res.val, !.e = ThreadIdle.e]
         ELSE returned(me, res)

\* an Arc<Inner> lives while a shard or a thread refers to it
referenced(id, cs, ts) ==
    IF \E L \in Layers, i \in 1..ThreadBuckets :
           IF cs[L].on THEN \E j \in 1..Len(cs[L].shards[i]) : cs[L].shards[i][j].id = id
           ELSE FALSE
    THEN TRUE
    ELSE \E t \in Threads, L \in Layers : ts[t].e[L] = id

FreeEntry == NewEntry("free", 0)

\* the entries no one refers to are freed
dropped(ents, cs, ts) ==
    LET kept == [id \in 1..Len(ents) |->
                    IF referenced(id, cs, ts) THEN ents[id] ELSE FreeEntry]
        used == {id \in 1..Len(ents) : kept[id] # FreeEntry}
        n == IF used = {} THEN 0 ELSE CHOOSE id \in used : \A o \in used : o <= id
    IN SubSeq(kept, 1, n)

\* where Arc::new puts the next entry
fresh_id(ents) ==
    LET free == {id \in 1..Len(ents) : ents[id] = FreeEntry}
    IN IF free = {} THEN Len(ents) + 1 ELSE CHOOSE id \in free : \A o \in free : id <= o

\* a call of the closure for (L, offset) returns Ok while an entry for the
\* offset is in the shard
seen(ents, L, offset) ==
    LET l == caches[L].shards[shard(L, offset)]
    IN IF caches[L].on /\ LruHas(l, offset)
       THEN [ents EXCEPT ![LruEntry(l, offset).id].during = @ + 1]
       ELSE ents

\* an error is stored as if it were a value
closure_ends_error_kept(ents, id, res) ==
    IF res.tag = "Some"
    THEN seen([ents EXCEPT ![id].full = TRUE, ![id].bytes = res.val, ![id].oks = @ + 1,
                           ![id].writer = 0],
              ents[id].layer, ents[id].key)
    ELSE [ents EXCEPT ![id].fails = @ + 1, ![id].writer = 0, ![id].full = TRUE]

\* the closure called on entry id ends with res: Ok is stored, and either way
\* the write guard is dropped
closure_ends(ents, id, res) ==
    IF res.tag = "Some"
    THEN seen([ents EXCEPT ![id].full = TRUE, ![id].bytes = res.val, ![id].oks = @ + 1,
                           ![id].writer = 0],
              ents[id].layer, ents[id].key)
    ELSE [ents EXCEPT ![id].fails = @ + 1, ![id].writer = 0]

\* the calls of get the first k threads have completed
RECURSIVE calls_made(_, _)
calls_made(ts, k) == IF k = 0 THEN 0 ELSE ts[k].n + calls_made(ts, k - 1)

\* get_with_options up to get_chunk
StartGet(t, key) ==
    /\ th[t].pc = "idle"
    /\ calls_made(th, MaxThreads) < MaxGets
    /\ LET b == find_bounds(rd.index, key, reader_index_start(rd))
           miss == IF rd.use_bloom /\ ~reader_bloom_check(rd.bloom, rd.meta, key)
                   THEN TRUE ELSE ~b.some
       IN th' = [th EXCEPT ![t] =
                    IF miss
                    THEN returned([@ EXCEPT !.key = key, !.short = 0], None)
                    ELSE [@ EXCEPT !.pc = enter(Top), !.layer = Top, !.key = key,
                                   !.offset = b.start, !.length = b.end - b.start,
                                   !.short = 0, !.res = Pending]]
    /\ UNCHANGED <<disk, wbuf, fpos, w, rd, last, held, checked, caches, mutex, entries, header, call, obj>>

\* caches.get_unchecked(idx).lock()
LockShard(t) ==
    LET L == th[t].layer
        i == shard(L, th[t].offset)
    IN /\ th[t].pc = "lock"
       /\ mutex[L][i] = 0
       /\ mutex' = [mutex EXCEPT ![L][i] = t]
       /\ th' = [th EXCEPT ![t].pc = "lookup"]
       /\ UNCHANGED <<disk, wbuf, fpos, w, rd, last, held, checked, caches, entries, header, call, obj>>

\* under the shard's mutex: lru.get, or Arc::new(Inner::new()) and lru.put;
\* then the mutex guard is dropped
Lookup(t) ==
    LET L == th[t].layer
        i == shard(L, th[t].offset)
        l == caches[L].shards[i]
        hit == shard_get(l, th[t].offset)
        id == IF hit # 0 THEN hit ELSE fresh_id(entries)
        made == IF id > Len(entries) THEN Append(entries, NewEntry(L, th[t].offset))
                ELSE [entries EXCEPT ![id] = NewEntry(L, th[t].offset)]
    IN /\ th[t].pc = "lookup"
       /\ caches' = [caches EXCEPT ![L].shards[i] =
                        IF hit # 0 THEN LruTouch(l, th[t].offset)
                        ELSE LruPut(l, caches[L].cap, [key |-> th[t].offset, id |-> id])]
       /\ mutex' = drop_shard_guard(mutex, L, i)
       /\ th' = [th EXCEPT ![t].pc = "read_lock", ![t].e[L] = id]
       /\ entries' = dropped(IF hit # 0 THEN entries ELSE made, caches', th')
       /\ UNCHANGED <<disk, wbuf, fpos, w, rd, last, held, checked, header, call, obj>>

\* self.value.read()
ReadLock(t) ==
    LET id == th[t].e[th[t].layer]
    IN /\ th[t].pc = "read_lock"
       /\ entries[id].writer = 0
       /\ entries' = [entries EXCEPT ![id].readers = @ \cup {t}]
       /\ th' = [th EXCEPT ![t].pc = "read_check"]
       /\ UNCHANGED <<disk, wbuf, fpos, w, rd, last, held, checked, caches, mutex, header, call, obj>>

\* under the read lock: return the value if there is one
ReadCheck(t) ==
    LET L == th[t].layer
        id == th[t].e[L]
    IN /\ th[t].pc = "read_check"
       /\ th' = [th EXCEPT ![t] = IF entries[id].full
                                  THEN leave(@, L, Some(entries[id].bytes))
                                  ELSE [@ EXCEPT !.pc = "write_lock"]]
       /\ entries' = dropped([entries EXCEPT ![id].readers = drop_read_guard(@, t)],
                              caches, th')
       /\ UNCHANGED <<disk, wbuf, fpos, w, rd, last, held, checked, caches, mutex, header, call, obj>>

\* self.value.write()
WriteLock(t) ==
    LET id == th[t].e[th[t].layer]
    IN /\ th[t].pc = "write_lock"
       /\ entries[id].writer = 0
       /\ entries[id].readers = {}
       /\ entries' = [entries EXCEPT ![id].writer = t]
       /\ th' = [th EXCEPT ![t].pc = "write_check"]
       /\ UNCHANGED <<disk, wbuf, fpos, w, rd, last, held, checked, caches, mutex, header, call, obj>>

\* under the write lock: return the value if there is one by now
WriteCheck(t) ==
    LET L == th[t].layer
        id == th[t].e[L]
    IN /\ th[t].pc = "write_check"
       /\ th' = [th EXCEPT ![t] = IF filled_under_write(entries[id])
                                  THEN leave(@, L, Some(entries[id].bytes))
                                  ELSE [@ EXCEPT !.pc = "compute"]]
       /\ entries' = dropped(IF filled_under_write(entries[id])
                             THEN [entries EXCEPT ![id].writer = 0]
                             ELSE [entries EXCEPT ![id].writer = write_guard_in_func(t)],
                             caches, th')
       /\ UNCHANGED <<disk, wbuf, fpos, w, rd, last, held, checked, caches, mutex, header, call, obj>>

\* the closure of WrappedCache::get_chunk starts: self.inner.get_chunk
Descend(t) ==
    LET id == th[t].e["outer"]
    IN /\ th[t].pc = "compute"
       /\ th[t].layer = "outer"
       /\ entries' = IF caches["outer"].on
                     THEN [entries EXCEPT ![id].runs = @ + 1]
                     ELSE entries
       /\ th' = [th EXCEPT ![t].layer = "inner", ![t].pc = enter("inner")]
       /\ UNCHANGED <<disk, wbuf, fpos, w, rd, last, held, checked, caches, mutex, header, call, obj>>

\* the closure of FileBackedPageCache::get_chunk: read_chunk.  An error also
\* ends the closure of the WrappedCache that called it
ReadChunk(t, first) ==
    LET me == th[t]
        res == read_chunk(disk, me.offset, me.length, first, checked)
        e1 == IF caches["inner"].on
              THEN closure_ends([entries EXCEPT ![me.e["inner"]].runs = @ + 1],
                                me.e["inner"], res)
              ELSE entries
        e2 == IF Stacked /\ caches["outer"].on /\ res.tag # "Some"
              THEN closure_ends(e1, me.e["outer"], res)
              ELSE e1
    IN /\ me.pc = "compute"
       /\ me.layer = "inner"
       /\ th' = [th EXCEPT ![t] = leave([me EXCEPT !.short = first], "inner", res)]
       /\ entries' = dropped(e2, caches, th')
       /\ UNCHANGED <<disk, wbuf, fpos, w, rd, last, held, checked, caches, mutex, header, call, obj>>

\* the closure of WrappedCache::get_chunk goes on: uncompress, Bytes::from
Decompress(t) ==
    LET me == th[t]
        res == Uncompress(rd.meta.compression, me.chunk)
    IN /\ me.pc = "uncompress"
       /\ th' = [th EXCEPT ![t] = leave(me, "outer", res)]
       /\ entries' = dropped(IF caches["outer"].on
                             THEN closure_ends(entries, me.e["outer"], res)
                             ELSE entries, caches, th')
       /\ UNCHANGED <<disk, wbuf, fpos, w, rd, last, held, checked, caches, mutex, header, call, obj>>

\* get_with_options after get_chunk: find_value_offset_v2 and chunk.slice
Finish(t) ==
    /\ th[t].pc = "found"
    /\ th' = [th EXCEPT ![t] = returned(@, value_of(th[t].chunk, th[t].key))]
    /\ UNCHANGED <<disk, wbuf, fpos, w, rd, last, held, checked, caches, mutex, entries, header, call, obj>>

\* what a thread inside get does next
Step(t) ==
    \/ LockShard(t)
    \/ Lookup(t)
    \/ ReadLock(t)
    \/ ReadCheck(t)
    \/ WriteLock(t)
    \/ WriteCheck(t)
    \/ Descend(t)
    \/ \E first \in ShortReadPool : ReadChunk(t, first)
    \/ Decompress(t)
    \/ Finish(t)

ConcNext ==
    \/ \E t \in Threads, key \in ConcKeys : StartGet(t, key)
    \/ \E t \in Threads : LockShard(t)
    \/ \E t \in Threads : Lookup(t)
    \/ \E t \in Threads : ReadLock(t)
    \/ \E t \in Threads : ReadCheck(t)
    \/ \E t \in Threads : WriteLock(t)
    \/ \E t \in Threads : WriteCheck(t)
    \/ \E t \in Threads : Descend(t)
    \/ \E t \in Threads, first \in ShortReadPool : ReadChunk(t, first)
    \/ \E t \in Threads : Decompress(t)
    \/ \E t \in Threads : Finish(t)

SpecConc == ConcInit /\ [][ConcNext]_vars

\* a thread's only call of get
StartOnce(t, key) ==
    /\ th[t].n = 0
    /\ StartGet(t, key)

\* every thread calls get at most once
OnceNext ==
    \/ \E t \in Threads, key \in ConcKeys : StartOnce(t, key)
    \/ \E t \in Threads : LockShard(t)
    \/ \E t \in Threads : Lookup(t)
    \/ \E t \in Threads : ReadLock(t)
    \/ \E t \in Threads : ReadCheck(t)
    \/ \E t \in Threads : WriteLock(t)
    \/ \E t \in Threads : WriteCheck(t)
    \/ \E t \in Threads : Descend(t)
    \/ \E t \in Threads, first \in ShortReadPool : ReadChunk(t, first)
    \/ \E t \in Threads : Decompress(t)
    \/ \E t \in Threads : Finish(t)

\* a thread inside get keeps running: reads and decompressions end, and a
\* lock that stays free is granted
SpecConcFair ==
    ConcInit /\ [][OnceNext]_vars /\ \A t \in Threads : WF_vars(Step(t))

(***************************************************************************)
(* Record headers (ondisk_format.rs, ondisk.rs).  KVLength::new is given   *)
(* the lengths as usize and keeps them as u16 and u32.                     *)
(***************************************************************************)
\* n as an integer of the given number of limbs: the higher limbs are cut off
cast(n, limbs) == [i \in 1..USizeLimbs |-> IF i <= limbs THEN n[i] ELSE 0]

\* the limbs of KeyLength (u16) and of ValueLength (u32)
KeyLimbs == (8 * KeyLengthSize) \div LimbBits
ValueLimbs == (8 * ValueLengthSize) \div LimbBits

\* the lengths cast without a test
KVLength_new_cast(k, v) ==
    [tag |-> "Ok", key_length |-> cast(k, KeyLimbs), value_length |-> cast(v, ValueLimbs)]

\* KVLength::new: KeyLength::try_from(k), then ValueLength::try_from(v); a
\* try_from fails when the cast would change the number
\* a header that takes a value of any length: the value length is cast
KVLength_new_value_cast(k, v) ==
    IF cast(k, KeyLimbs) # k
    THEN [tag |-> "KeyTooLong", key_length |-> k, value_length |-> v]
    ELSE [tag |-> "Ok", key_length |-> k, value_length |-> cast(v, ValueLimbs)]

KVLength_new(k, v) ==
    IF cast(k, KeyLimbs) # k
    THEN [tag |-> "KeyTooLong", key_length |-> k, value_length |-> v]
    ELSE IF cast(v, ValueLimbs) # v
    THEN [tag |-> "ValueTooLong", key_length |-> k, value_length |-> v]
    ELSE [tag |-> "Ok", key_length |-> k, value_length |-> v]

\* lengths a caller may come with: every limb 0, 1 or the greatest
LengthPool == [1..USizeLimbs -> {0, 1, LimbMax}]

HeaderInit ==
    /\ disk = <<>>
    /\ wbuf = <<>>
    /\ fpos = 0
    /\ w = NoWriter
    /\ rd = NoReader
    /\ last = Idle
    /\ held = "none"
    /\ checked = FALSE
    /\ ConcIdle
    /\ header = NoHeader
    /\ call = NoCall
    /\ obj = NoObj

\* set builds the header of the record from key.len() and value.len()
BuildHeader(k, v) ==
    /\ header = NoHeader
    /\ header' = [k |-> k, v |-> v, res |-> KVLength_new(k, v)]
    /\ UNCHANGED <<disk, wbuf, fpos, w, rd, last, held, checked, caches, mutex, entries, th, call, obj>>

HeaderNext == \E k \in LengthPool, v \in LengthPool : BuildHeader(k, v)

SpecHeader == HeaderInit /\ [][HeaderNext]_vars

(***************************************************************************)
(* Functions of the reader called on their own (ondisk_format.rs,          *)
(* reader.rs, concurrent_page_cache.rs), each on inputs of its caller's    *)
(* choice.                                                                 *)
(***************************************************************************)
CallInit ==
    /\ disk = <<>>
    /\ wbuf = <<>>
    /\ fpos = 0
    /\ w = NoWriter
    /\ rd = NoReader
    /\ last = Idle
    /\ held = "none"
    /\ checked \in BOOLEAN
    /\ ConcIdle
    /\ header = NoHeader
    /\ call = NoCall
    /\ obj = NoObj

\* the records a chunk may hold: any values under strictly ascending keys
ChunkRecords ==
    LET pool == [key : KeyPool, value : ValuePool]
        seqs == UNION {[1..n -> pool] : n \in 0..Cardinality(KeyPool)}
    IN {s \in seqs : \A i \in 1..(Len(s) - 1) : Cmp(s[i].key, s[i + 1].key) < 0}

\* find_value_offset_v2(buf, key) on the chunk of the records recs
ScanChunk(recs, key) ==
    /\ call = NoCall
    /\ call' = [fn |-> "find_value_offset_v2", recs |-> recs, key |-> key,
                out |-> find_value_offset_v2(RecordsBytes(recs), key)]
    /\ UNCHANGED <<disk, wbuf, fpos, w, rd, last, held, checked, caches, mutex, entries, th,
                   header, obj>>

\* index contents: entries under distinct keys, in any order, at offsets of
\* the data region
IndexEntries ==
    LET pool == [key : KeyPool, off : {PreambleSize + MetaSize, PreambleSize + MetaSize + 8}]
        seqs == UNION {[1..n -> pool] : n \in 0..Cardinality(KeyPool)}
    IN {s \in seqs : \A i, j \in 1..Len(s) : i # j => s[i].key # s[j].key}

\* Index::find_bounds(key, end_default) of the borrowed and of the owned
\* index, each built from the index region that holds the entries
FindBounds(es, key) ==
    LET region == IndexBytes(es)
        end_default == PreambleSize + MetaSize + 16
        mem == MemIndex_from_static_buf(region, Len(region))
        owned == OwnedIndex_from_reader(region)
    IN /\ call = NoCall
       /\ call' = [fn |-> "find_bounds", entries |-> es, key |-> key,
                   end_default |-> end_default,
                   built |-> <<mem.tag, owned.tag>>,
                   mem |-> find_bounds(mem.index, key, end_default),
                   owned |-> find_bounds(owned.index, key, end_default)]
       /\ UNCHANGED <<disk, wbuf, fpos, w, rd, last, held, checked, caches, mutex, entries,
                      th, header, obj>>

\* a file of five bytes that differ
PreadFile == <<11, 12, 13, 14, 15>>

\* pread_exact(fd, offset, length) on PreadFile; first is the size of the
\* short read the operating system answers the first pread with (0: it fills
\* the buffer as far as the file goes), every later pread is answered in full
Pread(offset, length, first) ==
    /\ call = NoCall
    /\ call' = [fn |-> "pread_exact", file |-> PreadFile, offset |-> offset,
                length |-> length, first |-> first,
                out |-> pread_exact(PreadFile, offset, length, first, checked)]
    /\ UNCHANGED <<disk, wbuf, fpos, w, rd, last, held, checked, caches, mutex, entries, th,
                   header, obj>>

\* the index region of a table of two entries
TwoEntries ==
    IndexBytes(<<[key |-> <<1>>, off |-> PreambleSize + MetaSize],
                 [key |-> <<1, 1>>, off |-> PreambleSize + MetaSize + 8]>>)

\* bytes found where an index region should be: the region of two entries,
\* whole or cut anywhere, or followed by bytes that are no entry
RegionPool ==
    {Slice(TwoEntries, 0, n) : n \in 0..Len(TwoEntries)}
        \cup {TwoEntries \o <<9>>, TwoEntries \o <<9, 9, 9>>}

\* the two indexes built over the bytes region for a meta struct that says
\* index_len: MemIndex::from_static_buf(region, index_len) and
\* OwnedIndex::from_reader(region.take(index_len))
BuildIndex(region, index_len) ==
    /\ call = NoCall
    /\ call' = [fn |-> "index", region |-> region, index_len |-> index_len,
                mem |-> MemIndex_from_static_buf(region, index_len),
                owned |-> OwnedIndex_from_reader(FileTake(region, 0, index_len))]
    /\ UNCHANGED <<disk, wbuf, fpos, w, rd, last, held, checked, caches, mutex, entries, th,
                   header, obj>>

CallNext ==
    \/ \E recs \in ChunkRecords, key \in QueryPool : ScanChunk(recs, key)
    \/ \E es \in IndexEntries, key \in QueryPool : FindBounds(es, key)
    \/ \E offset, length \in 0..Len(PreadFile), first \in 0..(Len(PreadFile) - 1) :
           Pread(offset, length, first)
    \/ \E region \in RegionPool, index_len \in 0..(Len(TwoEntries) + 3) :
           BuildIndex(region, index_len)

SpecCalls == CallInit /\ [][CallNext]_vars

(***************************************************************************)
(* The page cache of an open reader asked for chunks directly              *)
(* (page_cache.rs, concurrent_page_cache.rs): any offset of the index with *)
(* any length a chunk has, in any order.                                   *)
(***************************************************************************)
\* a reader of either kind opened without mmap with a cache option of options
CacheInitOf(options) ==
    \E comp \in WriterCompressions, variant \in {"S", "C"}, cache \in options :
        LET wr == closed_writer(comp, 1, StoredRecords)
            file == closed_file(wr)
        IN /\ disk = file
           /\ wbuf = <<>>
           /\ fpos = wr.data_start
           /\ w = [wr EXCEPT !.st = "finished", !.out = <<>>]
           /\ rd = reader_new(file, variant, [cache |-> cache, use_mmap |-> FALSE,
                                              use_bloom |-> FALSE])
           /\ last = Idle
           /\ held = "none"
           /\ checked \in BOOLEAN
           /\ ConcIdle
           /\ header = NoHeader
           /\ call = NoCall
           /\ obj = NoObj

CacheInit == CacheInitOf(CachePool)

\* where the chunk of the i-th index entry of the reader ends
chunk_end(r, i) ==
    IF i < Len(r.index) THEN r.index[i + 1].off ELSE r.data_start + r.meta.data_len

\* the offsets of the reader's index and the lengths of its chunks
ChunkOffsets(r) == {r.index[i].off : i \in 1..Len(r.index)}
ChunkLengths(r) == {chunk_end(r, i) - r.index[i].off : i \in 1..Len(r.index)}

\* the (offset, length) pairs asked before the call that is about to be made
AskedSoFar == IF call = NoCall THEN {} ELSE call.asked \cup {<<call.offset, call.length>>}

\* page_cache.get_chunk(offset, length) on the reader's page cache; pc and wc
\* are the caches as the call found them
GetChunk(offset, length, first) ==
    /\ rd.st = "ready"
    /\ LET g == IF rd.variant = "S" THEN S_get_chunk(rd, disk, offset, length)
                ELSE C_get_chunk(rd, disk, offset, length, first, checked)
       IN /\ rd' = [rd EXCEPT !.pc = g.pc, !.wc = g.wc]
          /\ call' = [fn |-> "get_chunk", offset |-> offset, length |-> length,
                      out |-> g.res, read |-> g.read, pc |-> rd.pc, wc |-> rd.wc,
                      asked |-> AskedSoFar]
    /\ UNCHANGED <<disk, wbuf, fpos, w, last, held, checked, caches, mutex, entries, th,
                   header, obj>>

CacheNext ==
    \E offset \in ChunkOffsets(rd), length \in ChunkLengths(rd), first \in ShortReadPool :
        GetChunk(offset, length, first)

SpecCache == CacheInit /\ [][CacheNext]_vars

\* the same calls on readers opened with ReadOptions.cache = None
NoCacheInit == CacheInitOf({CacheOff})

SpecNoCache == NoCacheInit /\ [][CacheNext]_vars

(***************************************************************************)
(* Properties of the written table and of the readers' answers.            *)
(***************************************************************************)
\* the finished flag as a reader of the file's meta struct would see it
DiskFinished ==
    /\ Len(disk) > w.meta_start + FinishedFieldOffset
    /\ disk[w.meta_start + FinishedFieldOffset + 1] = 1

\* finish returned Ok and all it wrote is in the file
Complete ==
    /\ w.st = "finished"
    /\ Len(disk) >= w.data_start
    /\ Slice(disk, w.meta_start, w.data_start) = MetaBytes(w.meta)

Asked == last.res.tag # "Idle"
WrittenKeys == {w.written[i].key : i \in 1..Len(w.written)}
ValueWritten(key) == w.written[CHOOSE i \in 1..Len(w.written) : w.written[i].key = key].value

\* C1 (round trip, hits): on a table whose writer completed finish, get of a
\* written key returns Some of exactly the value written for it.  Stated for
\* the gets whose reads the operating system answered in full.
RoundTripHits ==
    (Complete /\ Asked /\ last.short = 0 /\ last.key \in WrittenKeys)
        => last.res = Some(ValueWritten(last.key))

\* C2 (round trip, misses): on a table whose writer completed finish, get of a
\* key that was not written returns None.  Stated for the gets whose reads the
\* operating system answered in full.
RoundTripMisses ==
    (Complete /\ Asked /\ last.short = 0 /\ last.key \notin WrittenKeys)
        => last.res = None

\* what SSTableReader.get answers for the key on a freshly opened reader
\* with the default cache and without mmap
ReferenceGet(key, use_bloom) ==
    get_with_options(
        reader_new(disk, "S", [cache |-> CacheUnbounded, use_mmap |-> FALSE,
                               use_bloom |-> use_bloom]),
        disk, key, NoOptions, 0, checked).res

\* C3 (reader equivalence): on a finished table every get of every reader
\* variant, under every cache and use_mmap option, has the outcome that
\* SSTableReader.get has for the same key.
ReaderEquivalence ==
    (Complete /\ Asked) => last.res = ReferenceGet(last.key, rd.use_bloom)

\* reader equivalence for the gets whose reads were answered in full
ReaderEquivalenceFullReads ==
    (Complete /\ Asked /\ last.short = 0) => last.res = ReferenceGet(last.key, rd.use_bloom)

\* C4 (unfinished tables are rejected): a reader opened on a file whose meta
\* struct can be read and says finished = false fails with InvalidData and is
\* never ready.
UnfinishedRejected ==
    (rd.st # "none" /\ read_metadata(disk).tag = "Ok" /\ ~DiskFinished)
        => (rd.st = "failed" /\ rd.err = "InvalidData")

\* the index region the writer's meta struct describes is in the file
IndexOnDisk ==
    LET index_start == w.data_start + w.meta.data_len
        d == region_stream(w.comp, FileTake(disk, index_start, w.meta.index_len))
    IN /\ Len(disk) >= index_start + w.meta.index_len + w.meta.bloom_len
       /\ d.ok
       /\ d.out = IndexBytes(w.sparse_index)

\* C10 (finished flag): the flag on disk is true only once finish has run to
\* its end, and then the index region is already in the file; it is false
\* while the writer is open, and stays false when set or finish fails.
FinishedFlagLast ==
    DiskFinished => (w.st = "finished" /\ IndexOnDisk)

\* finish has completed on a table with records and the flag is on disk
FinishedFlagSet == DiskFinished /\ w.st = "finished" /\ w.written # <<>>

\* C8: a value the concurrent reader handed out stays backed by valid memory
\* for as long as the caller holds it: a value whose bytes lie in the mapped
\* file is never held after the reader unmapped the file
BufferBacked ==
    (rd.variant = "C" /\ held = "static") => rd.st # "closed"

\* C9: whatever bytes the data chunk and the index region hold, get returns
\* a value, None or an error: it never panics (the operating system answers
\* every pread in full)
NoPanicOnMalformed ==
    (Asked /\ last.short = 0) => last.res.tag # "Panic"

\* C5 as claimed: between the install of an offset's entry in its shard and
\* its eviction the closure for the offset runs at most once, even counting
\* only the runs that returned Ok
SingleFlight ==
    \A id \in 1..Len(entries) : entries[id].during <= 1

\* C5: on one entry the closure stores a value at most once, and is called
\* again only after a call that failed; so at most one call is under way or
\* has succeeded
SingleFlightPerEntry ==
    \A id \in 1..Len(entries) :
        /\ entries[id].oks <= 1
        /\ entries[id].runs <= entries[id].fails + 1

\* a thread that lost the race holds the write lock of an entry another
\* thread's only call of the closure has filled
SingleFlightContended ==
    \E t \in Threads :
        /\ th[t].pc = "write_check"
        /\ entries[th[t].e[th[t].layer]].full
        /\ entries[th[t].e[th[t].layer]].runs = 1

\* get(key) by one thread on a new reader of the same table, the first pread
\* answered with first bytes
AloneResult(key, first) == get_with_options(rd, disk, key, NoOptions, first, checked).res

Busy(t) == th[t].pc # "idle"

\* while a call is under way some thread can take a step
NoDeadlock ==
    (\E t \in Threads : Busy(t)) => (\E t \in Threads : ENABLED Step(t))

\* C7: no deadlock is reachable, and every get returns
DeadlockFreeProgress ==
    /\ []NoDeadlock
    /\ \A t \in Threads : Busy(t) ~> ~Busy(t)

\* a thread waits for the write lock of an entry of the uncompressing cache
\* while its holder is inside the file-backed cache
LockContended ==
    \E t \in Threads, u \in Threads :
        /\ th[t].pc \in {"read_lock", "write_lock"}
        /\ th[t].layer = "outer"
        /\ entries[th[t].e["outer"]].writer = u
        /\ th[u].layer = "inner"
        /\ th[u].pc \in {"lock", "lookup", "read_lock", "write_lock"}

MmapRejectsCompressed ==
    (rd.variant = "M" /\ rd.st # "none") =>
        /\ (read_metadata(disk).tag = "Ok"
              /\ read_metadata(disk).meta.compression # CompressionNone)
            => (rd.st = "failed" /\ rd.err = "CantUseCompressedFileWithMultiThreadedMmap")
        /\ (Complete /\ w.comp = CompressionNone) => rd.st # "failed"

\* the mmap reader turned a finished Zlib table with records away
MmapOpenedOnCompressed ==
    /\ rd.variant = "M"
    /\ rd.st = "failed"
    /\ Complete
    /\ w.comp = CompressionZlib
    /\ w.written # <<>>

\* the mmap reader serves a finished uncompressed table
MmapOpenedOnUncompressed ==
    /\ rd.variant = "M"
    /\ rd.st = "ready"
    /\ Complete
    /\ w.comp = CompressionNone
    /\ last.res.tag = "Some"

\* the file begins with the magic and a whole version tag
HasVersionTag ==
    /\ Len(disk) >= PreambleSize
    /\ Slice(disk, 0, Len(MAGIC)) = MAGIC

RECURSIVE LimbsGreater(_, _, _)
LimbsGreater(a, b, i) ==
    IF i = 0 THEN FALSE
    ELSE IF a[i] # b[i] THEN a[i] > b[i]
    ELSE LimbsGreater(a, b, i - 1)

\* 2^16 - 1 and 2^32 - 1
KEY_MAX == [i \in 1..USizeLimbs |-> IF i <= 1 THEN LimbMax ELSE 0]
VALUE_MAX == [i \in 1..USizeLimbs |-> IF i <= 2 THEN LimbMax ELSE 0]

\* C14 (length bounds): building the header fails with KeyTooLong when the
\* key is longer than 65535, otherwise with ValueTooLong when the value is
\* longer than 2^32 - 1, and otherwise succeeds with both lengths unchanged
\* (the maxima and the empty key and value included)
LengthBounds ==
    header.res.tag # "Idle" =>
        header.res.tag =
            IF LimbsGreater(header.k, KEY_MAX, USizeLimbs) THEN "KeyTooLong"
            ELSE IF LimbsGreater(header.v, VALUE_MAX, USizeLimbs) THEN "ValueTooLong"
            ELSE "Ok"

\* a header was built for a key and a value of exactly the greatest lengths
LengthsAtMaxima ==
    /\ header.res.tag = "Ok"
    /\ header.k = KEY_MAX
    /\ header.v = VALUE_MAX
    /\ header.res.key_length = KEY_MAX
    /\ header.res.value_length = VALUE_MAX

\* a thread is reading from the file or decompressing
InCompute(t) ==
    \/ th[t].pc = "compute" /\ th[t].layer = "inner"
    \/ th[t].pc = "uncompress"

\* C15: a shard's mutex is held only across the lookup in its LRU, by a
\* thread that can go on; it has been released when the closure is called, so
\* no thread that reads from disk or decompresses holds a shard mutex and a
\* miss never keeps other offsets of the shard waiting
ShardMutexNotInCompute ==
    /\ \A L \in Layers, i \in 1..ThreadBuckets :
           mutex[L][i] # 0 =>
               /\ th[mutex[L][i]].pc = "lookup"
               /\ th[mutex[L][i]].layer = L
               /\ shard(L, th[mutex[L][i]].offset) = i
    /\ \A t \in Threads :
           (InCompute(t) \/ th[t].pc = "compute") =>
               \A L \in Layers, i \in 1..ThreadBuckets : mutex[L][i] # t

\* while one thread reads a chunk from the file another holds the mutex of
\* the same shard for another offset
ShardOpenDuringCompute ==
    \E t \in Threads, u \in Threads :
        /\ th[t].pc = "compute"
        /\ th[t].layer = "inner"
        /\ caches["inner"].on
        /\ th[u].pc = "lookup"
        /\ th[u].layer = "inner"
        /\ th[u].offset # th[t].offset
        /\ shard("inner", th[u].offset) = shard("inner", th[t].offset)
        /\ mutex["inner"][shard("inner", th[u].offset)] = u

IndexMonotone ==
    Complete =>
        /\ IndexOnDisk
        /\ \A i \in 1..(Len(w.sparse_index) - 1) :
               /\ Cmp(w.sparse_index[i].key, w.sparse_index[i + 1].key) < 0
               /\ w.sparse_index[i].off < w.sparse_index[i + 1].off

\* a finished table with more than one index entry
IndexOfTwo == Complete /\ Len(w.sparse_index) >= 2

\* the chunks that hold records, in the order they were begun
Chunks == SelectSeq(w.chunks, LAMBDA c : c.recs # <<>>)

\* C18: after any sequence of set calls the sparse index is exactly the list
\* of the chunks' first keys with the chunks' starts: one entry per chunk
\* and no entry for a key that is not the first record of a chunk
IndexIsChunkFirsts ==
    w.st # "none" =>
        w.sparse_index =
            [i \in 1..Len(Chunks) |-> [key |-> Chunks[i].recs[1].key, off |-> Chunks[i].start]]

\* a chunk of two records next to an index of one entry
SecondKeyNotIndexed ==
    /\ w.st = "open"
    /\ \E i \in 1..Len(Chunks) : Len(Chunks[i].recs) >= 2
    /\ Len(w.sparse_index) < Len(w.written)

\* the bytes are one whole frame of the algorithm
WholeFrame(comp, bytes) ==
    IF comp = CompressionNone THEN TRUE
    ELSE /\ Len(bytes) >= 3
         /\ bytes[1] = ZHeader
         /\ bytes[Len(bytes) - 1] = ZEnd

\* where the chunk of index entry i ends: the next entry's offset, or the end
\* of the data region
ChunkEnd(i) ==
    IF i < Len(w.sparse_index) THEN w.sparse_index[i + 1].off
    ELSE w.data_start + w.meta.data_len

\* C19 (chunk self-containment): in a finished table, for every index entry
\* the bytes from its offset to the next chunk start (the end of the data
\* region for the last) are one whole compression frame that a fresh
\* decompressor turns into exactly the records written into that chunk, the
\* first of them under the indexed key
ChunkSelfContained ==
    Complete =>
        /\ Len(Chunks) = Len(w.sparse_index)
        /\ \A i \in 1..Min(Len(Chunks), Len(w.sparse_index)) :
               LET o == w.sparse_index[i].off
                   bytes == FileTake(disk, o, ChunkEnd(i) - o)
               IN /\ o <= ChunkEnd(i)
                  /\ ChunkEnd(i) <= Len(disk)
                  /\ WholeFrame(w.comp, bytes)
                  /\ Uncompress(w.comp, bytes) = Some(RecordsBytes(Chunks[i].recs))
                  /\ Chunks[i].recs[1].key = w.sparse_index[i].key

\* a finished Zlib table of two chunks
TwoFrames ==
    /\ Complete
    /\ w.comp = CompressionZlib
    /\ Len(w.sparse_index) >= 2

\* C20 (region accounting): in a finished table data_len, index_len and
\* bloom_len are the sizes of the three regions that follow the meta struct
\* one after another, and preamble, meta struct and the three regions make
\* up the whole file
RegionAccounting ==
    Complete =>
        LET data_end == w.data_start + w.meta.data_len
            index_end == data_end + w.meta.index_len
            d == region_stream(w.comp, FileTake(disk, data_end, w.meta.index_len))
        IN /\ w.data_start = PreambleSize + MetaSize
           /\ d.ok
           /\ d.out = IndexBytes(w.sparse_index)
           /\ read_bloom(region_stream(w.comp, FileTake(disk, index_end, w.meta.bloom_len)),
                          w.meta).tag = "Ok"
           /\ PreambleSize + MetaSize + w.meta.data_len + w.meta.index_len
                  + w.meta.bloom_len = Len(disk)

\* what a scan that reads every record's header at the record's own offset
\* finds: the range of the value under the key, nothing at the first greater
\* key, nothing at the end of the chunk
RECURSIVE scan_records(_, _, _)
scan_records(recs, key, offset) ==
    IF recs = <<>> THEN NotFound("None")
    ELSE LET r == Head(recs)
             start == offset + KVLength_encoded_size + Len(r.key)
             c == Cmp(r.key, key)
         IN IF c = 0 THEN Found(start, start + Len(r.value))
            ELSE IF c > 0 THEN NotFound("None")
            ELSE scan_records(Tail(recs), key, start + Len(r.value))

\* C21 (chunk scan): on every well-formed chunk of records in ascending key
\* order, whatever the lengths of their keys and values, and for every query
\* key, find_value_offset_v2 returns the byte range of the value stored
\* under the key, None at the first greater key and None at the end of the
\* chunk, as a scan by each record's own header does
ScanByOwnHeaders ==
    call.fn = "find_value_offset_v2" => call.out = scan_records(call.recs, call.key, 0)

\* the bounds of a key in a set of index entries, by the order of the keys
bounds_in(S, key, end_default) ==
    LET left == {e \in S : Cmp(e.key, key) <= 0}
        right == {e \in S : Cmp(e.key, key) > 0}
        greatest == CHOOSE e \in left : \A f \in left : Cmp(f.key, e.key) <= 0
        least == CHOOSE e \in right : \A f \in right : Cmp(e.key, f.key) <= 0
    IN IF left = {} THEN [some |-> FALSE, start |-> 0, end |-> 0]
       ELSE [some |-> TRUE, start |-> greatest.off,
             end |-> IF right = {} THEN end_default ELSE least.off]

\* C22 (sparse index lookup): find_bounds returns None exactly when the query
\* is smaller than every indexed key, and otherwise the offset of the
\* greatest indexed key <= the query with the offset of the least indexed key
\* above it, or the default when there is none; the borrowed and the owned
\* index give the same answer
FindBoundsByOrder ==
    call.fn = "find_bounds" =>
        LET S == {call.entries[i] : i \in 1..Len(call.entries)}
        IN /\ call.built = <<"Ok", "Ok">>
           /\ call.mem = bounds_in(S, call.key, call.end_default)
           /\ call.owned = call.mem
           /\ call.mem.some = (\E e \in S : Cmp(e.key, call.key) <= 0)

\* a query equal to an indexed key that has a key below and a key above it
BoundsOfIndexedKey ==
    /\ call.fn = "find_bounds"
    /\ Len(call.entries) = 3
    /\ \E i, j, k \in 1..3 :
           /\ call.entries[i].key = call.key
           /\ Cmp(call.entries[j].key, call.key) < 0
           /\ Cmp(call.entries[k].key, call.key) > 0
           /\ call.mem = [some |-> TRUE, start |-> call.entries[i].off,
                          end |-> call.entries[k].off]
           /\ call.entries[j].off # call.entries[i].off

\* the bytes the file has taken since the chunk being written began (for
\* Zlib, once the encoder is flushed as relative_offset flushes it)
SinceChunkStart(wr) ==
    LET at == IF wr.comp = CompressionNone THEN wr.pos ELSE get_flushed_writer(wr).pos
    IN at - wr.chunks[Len(wr.chunks)].start

\* C23 (chunk boundary rule): a set after the first opens a new chunk
\* exactly when the bytes written since the start of the current chunk plus
\* the length of the value reach flush_every; the count starts again at
\* every chunk, so a chunk holds about flush_every bytes
ChunkBoundaryRule ==
    [][(/\ w.st = "open"
        /\ w.written # <<>>
        /\ (Len(w'.written) > Len(w.written) \/ w'.st = "panicked"))
       => /\ w'.st # "panicked"
          /\ (Len(w'.chunks) > Len(w.chunks))
                 <=> (SinceChunkStart(w) + Len(w'.written[Len(w'.written)].value)
                          >= w.flush_every)]_vars

\* the latest call went to the ReadPageCache of an SSTableReader on a table
\* without compression, for bytes the file has
ReadPageCacheAsked ==
    /\ call.fn = "get_chunk"
    /\ rd.variant = "S"
    /\ rd.meta.compression = CompressionNone
    /\ call.offset + call.length <= Len(disk)

\* every earlier call for the offset of the latest call had its length
SameLengthAsBefore ==
    \A p \in call.asked : p[1] = call.offset => p[2] = call.length

\* the entries of an LRU, their order left aside
LruEntries(l) == {l[i] : i \in 1..Len(l)}

\* what the claim says of a miss and of a hit: a miss reads the file and
\* inserts the buffer under the offset, a hit reads nothing and keeps the
\* entries of the cache
ReadThroughFrame ==
    LET before == call.pc.shards[1]
        after == rd.pc.shards[1]
        bytes == Slice(disk, call.offset, call.offset + call.length)
    IN IF LruHas(before, call.offset)
       THEN /\ ~call.read
            /\ LruEntries(after) = LruEntries(before)
            /\ call.out = Some(LruEntry(before, call.offset).bytes)
       ELSE /\ call.read
            /\ call.out = Some(bytes)
            /\ after # <<>>
            /\ after[1] = Filled(call.offset, bytes)

\* C24 as stated: every call, in any sequence of calls, returns exactly the
\* file bytes [offset, offset + length)
ReadThroughAnyCalls ==
    ReadPageCacheAsked =>
        /\ call.out = Some(Slice(disk, call.offset, call.offset + call.length))
        /\ ReadThroughFrame

\* C24 (read-through cache), amended: in a sequence of calls in which an
\* offset always comes with the same length, every call returns exactly the
\* file bytes [offset, offset + length); in any sequence a miss reads the
\* file and inserts the buffer under the offset, and a hit reads nothing
\* and returns the buffer stored under the offset
ReadThroughSameLengths ==
    ReadPageCacheAsked =>
        /\ SameLengthAsBefore =>
               call.out = Some(Slice(disk, call.offset, call.offset + call.length))
        /\ ReadThroughFrame

\* a hit: the offset was asked before with the same length, the call read
\* nothing and returned the bytes of the file
ReadThroughHit ==
    /\ ReadPageCacheAsked
    /\ SameLengthAsBefore
    /\ LruHas(call.pc.shards[1], call.offset)
    /\ ~call.read
    /\ call.out = Some(Slice(disk, call.offset, call.offset + call.length))

\* C25 (positional read): pread_exact returns exactly the file bytes
\* [offset, offset + length), however the operating system splits the read
\* into short reads, returns InvalidData when the file ends first, and its
\* count of remaining bytes never goes below zero
PreadExactBytes ==
    call.fn = "pread_exact" =>
        call.out = IF call.length = 0 THEN Some(<<>>)
                   ELSE IF call.offset + call.length <= Len(call.file)
                   THEN Some(Slice(call.file, call.offset, call.offset + call.length))
                   ELSE INVALID_DATA

\* the entries a cache layer holds, all shards together
Cached(c) == UNION {LruEntries(c.shards[i]) : i \in 1..Len(c.shards)}

\* the file bytes of the chunk of the i-th index entry
ChunkOnDisk(i) == Slice(disk, rd.index[i].off, chunk_end(rd, i))

\* C26 (cache key stability): every request a reader makes of its page cache
\* is for the offset of an index entry with the length from there to the next
\* index offset (to the start of the index region for the last chunk); no
\* two index entries share an offset, so an offset always comes with the
\* same length, and what SSTableReader's caches hold under an offset are
\* the bytes of that chunk
CacheKeyStable ==
    rd.st = "ready" =>
        /\ \A i, j \in 1..Len(rd.index) : rd.index[i].off = rd.index[j].off => i = j
        /\ last.asked # <<>> =>
               \E i \in 1..Len(rd.index) :
                   last.asked = <<rd.index[i].off, chunk_end(rd, i) - rd.index[i].off>>
        /\ rd.variant = "S" =>
               /\ \A e \in Cached(rd.pc) :
                      \E i \in 1..Len(rd.index) :
                          e = Filled(rd.index[i].off, ChunkOnDisk(i))
               /\ \A e \in Cached(rd.wc) :
                      \E i \in 1..Len(rd.index) :
                          /\ e.key = rd.index[i].off
                          /\ Some(e.bytes) = Uncompress(rd.meta.compression, ChunkOnDisk(i))

\* a get of SSTableReader asked for the last chunk, up to the start of the
\* index region, and the cache holds both chunks of the table
LastChunkAskedAgain ==
    /\ rd.st = "ready"
    /\ rd.variant = "S"
    /\ Len(rd.index) = 2
    /\ last.asked = <<rd.index[2].off, reader_index_start(rd) - rd.index[2].off>>
    /\ last.res.tag = "Some"
    /\ \E e \in Cached(rd.pc) : e.key = rd.index[2].off
    /\ \E e \in Cached(rd.pc) : e.key = rd.index[1].off

\* the latest call went to an uncompressing cache: page_cache::WrappedCache
\* of SSTableReader or concurrent_page_cache::WrappedCache with a cache
\* configured
WrappedCacheAsked ==
    /\ call.fn = "get_chunk"
    /\ rd.meta.compression # CompressionNone
    /\ call.wc.on

\* the uncompressing cache held the bytes of the offset when the call came
WrappedHit == \E e \in Cached(call.wc) : e.key = call.offset /\ e.full

\* C27 (uncompressing cache): a hit returns the uncompressed bytes stored
\* under the offset and leaves the inner cache as it was, without a read of
\* the file; a miss that returns bytes has stored them under the same
\* offset, and they are the uncompressed form of what the inner cache was
\* asked for and now holds under that offset
WrappedCacheFrame ==
    WrappedCacheAsked =>
        IF WrappedHit
        THEN /\ \E e \in Cached(call.wc) : e.key = call.offset /\ call.out = Some(e.bytes)
             /\ rd.pc = call.pc
             /\ ~call.read
             /\ Cached(rd.wc) = Cached(call.wc)
        ELSE /\ call.out.tag = "Some" =>
                    /\ Filled(call.offset, call.out.val) \in Cached(rd.wc)
                    /\ \A e \in Cached(rd.pc) :
                           e.key = call.offset /\ e.full =>
                               Uncompress(rd.meta.compression, e.bytes) = call.out
             /\ call.out.tag # "Some" => Cached(rd.wc) \subseteq Cached(call.wc) \cup {Installed(call.offset)}
             /\ rd.pc.on /\ call.out.tag = "Some" =>
                    \E e \in Cached(rd.pc) : e.key = call.offset /\ e.full

\* a hit on a chunk that is not the most recent entry of the inner cache: a
\* call of the inner cache would have moved it to the front
WrappedHitInnerStays ==
    /\ WrappedCacheAsked
    /\ WrappedHit
    /\ call.out.tag = "Some"
    /\ \E i \in 1..Len(call.pc.shards) :
           /\ Len(call.pc.shards[i]) = 2
           /\ call.pc.shards[i][2].key = call.offset
    /\ rd.pc = call.pc

\* the filter of the open reader says the key was never written
BloomSaysAbsent(key) == ~reader_bloom_check(rd.bloom, rd.meta, key)

\* C28 (Bloom fast path): a get for which use_bloom is in effect (the option
\* of the call if one is given, the reader's default otherwise) and whose key
\* the filter rejects returns absent, asks nothing of the page cache and
\* leaves every cache as it was
BloomFastPath ==
    [][(/\ rd.st = "ready"
        /\ last' # last
        /\ (IF last'.options.given THEN last'.options.use_bloom ELSE rd.use_bloom)
        /\ BloomSaysAbsent(last'.key))
       => (/\ last'.res = None
           /\ last'.asked = <<>>
           /\ rd'.pc = rd.pc
           /\ rd'.wc = rd.wc
           /\ rd'.st = "ready")]_vars

\* a call that turned the filter on, against the reader's default, was
\* answered absent for a key that lies inside a chunk; the earlier get of
\* the reader had filled its cache, which stayed as it was
BloomFastPathTaken ==
    /\ rd.st = "ready"
    /\ ~rd.use_bloom
    /\ last.options = [given |-> TRUE, use_bloom |-> TRUE]
    /\ BloomSaysAbsent(last.key)
    /\ find_bounds(rd.index, last.key, reader_index_start(rd)).some
    /\ last.res = None
    /\ last.asked = <<>>
    /\ Cached(rd.pc) # {}

\* the bytes are a sequence of complete entries (of the region of two
\* entries: none, the first, or both)
CompleteEntries(bytes) ==
    \E n \in 0..2 :
        bytes = IndexBytes(SubSeq(<<[key |-> <<1>>, off |-> PreambleSize + MetaSize],
                                    [key |-> <<1, 1>>, off |-> PreambleSize + MetaSize + 8]>>,
                                  1, n))

\* the region is exactly a sequence of complete entries of index_len bytes
RegionConsistent ==
    /\ Len(call.region) = call.index_len
    /\ CompleteEntries(call.region)

IndexOffsetsAbsolute ==
    Complete =>
        /\ w.data_start = PreambleSize + MetaSize
        /\ w.sparse_index # <<>> => w.sparse_index[1].off = w.data_start
        /\ \A i \in 1..Len(w.sparse_index) :
               /\ w.sparse_index[i].off >= w.data_start
               /\ w.sparse_index[i].off < w.data_start + w.meta.data_len
        /\ rd.st = "ready" =>
               /\ rd.index = w.sparse_index
               /\ last.asked # <<>> =>
                      \E i \in 1..Len(w.sparse_index) : last.asked[1] = w.sparse_index[i].off

\* C31 (metadata backpatch): the meta struct serializes to the same number
\* of bytes whatever its fields hold, so the write that ends finish starts
\* at the recorded meta offset, stays inside the bytes of the placeholder
\* and changes neither the length of the file nor a byte of the preamble or
\* of what follows the meta struct
BackpatchInPlace ==
    [][(w.st = "seeked" /\ w'.st = "finished") =>
          /\ fpos = w.meta_start
          /\ Len(MetaBytes(w.meta)) = w.data_start - w.meta_start
          /\ Len(disk) >= w.data_start
          /\ Len(disk') = Len(disk)
          /\ \A i \in 1..Len(disk) :
                 (i <= w.meta_start \/ i > w.data_start) => disk'[i] = disk[i]]_vars

\* a finished table of records whose meta struct, no longer the placeholder,
\* lies between the preamble and the data region
BackpatchedOverPlaceholder ==
    /\ w.st = "finished"
    /\ w.meta.data_len > 0
    /\ w.meta # [MetaDefault EXCEPT !.compression = w.comp]
    /\ Len(disk) > w.data_start
    /\ Slice(disk, 0, w.meta_start) = Preamble
    /\ Slice(disk, w.meta_start, w.data_start) = MetaBytes(w.meta)

\* the results a call hands back when its closure failed
Failure(res) == res.tag \notin {"Some", "None", "Pending", "Idle"}

\* C32 (a failed compute does not poison the concurrent cache): when the
\* closure run on an entry returns an error, the thread that ran it gets
\* that error from get, the entry's write lock is free again and the entry
\* is as empty as before; a thread that finds an entry empty under the write
\* lock runs the closure, however often it failed before; and an entry holds
\* bytes only after a closure returned Ok on it
FailedComputeLeavesEntryEmpty ==
    [][/\ \A id \in 1..Len(entries) :
              IF id > Len(entries') THEN TRUE
              ELSE (/\ entries'[id].layer = entries[id].layer
                    /\ entries'[id].key = entries[id].key
                    /\ entries'[id].fails = entries[id].fails + 1) =>
                       /\ ~entries'[id].full
                       /\ entries'[id].bytes = <<>>
                       /\ entries'[id].writer = 0
                       /\ entries[id].writer \in Threads
                       /\ th'[entries[id].writer].pc = "idle"
                       /\ Failure(th'[entries[id].writer].res)
       /\ \A t \in Threads :
              (th[t].pc = "write_check" /\ ~entries[th[t].e[th[t].layer]].full) =>
                  (th'[t].pc = "write_check" \/ th'[t].pc = "compute")
       /\ \A id \in 1..Len(entries') :
              entries'[id].full => entries'[id].oks >= 1]_vars

\* an entry whose closure failed for one call of get and, run again for a
\* later call, filled it
RecomputedAfterFailure ==
    \E id \in 1..Len(entries) :
        /\ entries[id].fails >= 1
        /\ entries[id].oks >= 1
        /\ entries[id].full
        /\ \E t \in Threads : Failure(th[t].res) /\ th[t].res.tag # "Panic"
        /\ \E t \in Threads : th[t].res.tag = "Some"

(***************************************************************************)
(* The compression context writers of compress_ctx_writer.rs on their own, *)
(* over a sink whose writes may fail.  encoder is the Option the writer    *)
(* keeps its encoder in, total_in the bytes the encoder at hand has taken, *)
(* frames the contexts closed so far, op and out the latest operation and  *)
(* how it ended.                                                           *)
(***************************************************************************)
\* bytes one context takes, and contexts one writer closes
MaxIn == 2
MaxFrames == 2

\* CompressionContextWriterImpl, ZlibWriter, SnappyWriter
CtxKinds == {"Impl", "Zlib", "Snappy"}

\* no table is written or read while a part is used on its own
Apart ==
    /\ disk = <<>>
    /\ wbuf = <<>>
    /\ fpos = 0
    /\ w = NoWriter
    /\ rd = NoReader
    /\ last = Idle
    /\ held = "none"
    /\ checked = FALSE
    /\ ConcIdle
    /\ header = NoHeader
    /\ call = NoCall

\* ZlibWriter::new, SnappyWriter::new, CompressionContextWriterImpl::new
CtxInit ==
    /\ Apart
    /\ \E kind \in CtxKinds :
           obj = [is |-> "ctx_writer", kind |-> kind, encoder |-> TRUE, total_in |-> 0,
                  frames |-> 0, op |-> "new", out |-> "Ok", gone |-> FALSE]

\* the writer can be called: it was not consumed and no call panicked
CtxLive == obj.is = "ctx_writer" /\ ~obj.gone /\ obj.out # "Panic"

\* the operation op ends with out on the writer next
CtxEnds(next, op, out) ==
    /\ obj' = [next EXCEPT !.op = op, !.out = out]
    /\ UNCHANGED <<disk, wbuf, fpos, w, rd, last, held, checked, caches, mutex, entries, th,
                   header, call>>

\* Write::write: get_mut_encoder().unwrap().write(buf)
CtxWrite(n, io) ==
    /\ CtxLive
    /\ obj.total_in + n <= MaxIn
    /\ IF ~obj.encoder THEN CtxEnds(obj, "write", "Panic")
       ELSE IF io.ok THEN CtxEnds([obj EXCEPT !.total_in = @ + n], "write", "Ok")
       ELSE CtxEnds(obj, "write", "Io")

\* Write::flush: get_mut_encoder().unwrap().flush()
CtxFlush(io) ==
    /\ CtxLive
    /\ IF ~obj.encoder THEN CtxEnds(obj, "flush", "Panic")
       ELSE CtxEnds(obj, "flush", IF io.ok THEN "Ok" ELSE "Io")

\* the encoder is taken out and what finishing it yields decides the rest:
\* CompressionContextWriterImpl and ZlibWriter return the error with `?`,
\* SnappyWriter puts the encoder back first
reset_compression_context_of(o, io) ==
    LET fresh == [o EXCEPT !.encoder = TRUE, !.total_in = 0, !.frames = @ + 1]
        taken == [o EXCEPT !.encoder = FALSE]
    IN IF ~o.encoder THEN [o |-> o, out |-> "ProgrammingError"]
       ELSE IF o.kind = "Zlib" /\ o.total_in = 0 THEN [o |-> o, out |-> "Ok"]
       ELSE IF io.ok THEN [o |-> fresh, out |-> "Ok"]
       ELSE IF o.kind = "Snappy" THEN [o |-> o, out |-> "Io"]
       ELSE [o |-> taken, out |-> "Io"]

\* CompressionContextWriter::reset_compression_context
CtxReset(io) ==
    /\ CtxLive
    /\ obj.frames < MaxFrames
    /\ LET r == reset_compression_context_of(obj, io)
       IN CtxEnds(r.o, "reset_compression_context", r.out)

\* CompressionContextWriter::into_inner consumes the writer
CtxIntoInner(io) ==
    /\ CtxLive
    /\ CtxEnds([obj EXCEPT !.gone = TRUE, !.encoder = FALSE], "into_inner",
               IF ~obj.encoder THEN "ProgrammingError"
               ELSE IF io.ok THEN "Ok" ELSE "Io")

CtxNext ==
    \/ \E n \in 0..MaxIn, io \in IoPool : CtxWrite(n, io)
    \/ \E io \in IoPool : CtxFlush(io)
    \/ \E io \in IoPool : CtxReset(io)
    \/ \E io \in IoPool : CtxIntoInner(io)

SpecCtx == CtxInit /\ [][CtxNext]_vars

\* C33 (encoder-present invariant): after every write, flush and
\* reset_compression_context, ended with Ok or with an error, a compression
\* context writer that was not consumed by into_inner holds an encoder, and
\* no call ends with the "encoder missing" ProgrammingError or panics on it
EncoderPresent ==
    (obj.is = "ctx_writer" /\ ~obj.gone) =>
        /\ obj.encoder
        /\ obj.out \notin {"ProgrammingError", "Panic"}

\* the cache layer holds the bytes of some chunk
HoldsBytes(c) == c.on /\ \E i \in 1..Len(c.shards) : \E j \in 1..Len(c.shards[i]) :
                            c.shards[i][j].full

\* the layer a reader's get_chunk is answered by
TopLayer(r, pc, wc) == IF r.meta.compression = CompressionNone THEN pc ELSE wc

\* a reader keeps no chunk and its latest call went to the file
FreshReads(r) ==
    /\ ~HoldsBytes(r.pc)
    /\ ~HoldsBytes(r.wc)
    /\ (call.fn = "get_chunk" /\ call.out.tag = "Some") => call.read

GetUnder(b, key, first) ==
    get_with_options([rd EXCEPT !.use_bloom = b], disk, key, NoOptions, first, checked).res

\* C35 (the Bloom filter is only an accelerator): on a finished table, every
\* reader variant returns for every query key the same result with
\* use_bloom = false as with use_bloom = true
BloomOnlyAccelerates ==
    (rd.st = "ready" /\ w.st = "finished") =>
        \A key \in QueryPool, first \in ShortReadPool :
            GetUnder(FALSE, key, first) = GetUnder(TRUE, key, first)

(***************************************************************************)
(* set(key, value) of the writer of format 2.0 with keys and values of any *)
(* length.  The lengths are usize limbs, the keys are numbered in the      *)
(* order the caller gives them, and the data written is kept as the list   *)
(* of records.  The steps are those of the set algorithm of section 4.4;   *)
(* the record header is built by KVLength::new.                            *)
(***************************************************************************)
\* set calls made on one writer
MaxSetCalls == 3

\* key and value lengths: 1, 2, 2^16 and 2^32
SetLengths == {<<1, 0, 0, 0>>, <<2, 0, 0, 0>>, <<0, 1, 0, 0>>, <<0, 0, 1, 0>>}

\* a length that fits two limbs as a number
AsNumber(n) == n[1] + n[2] * Pow2(LimbBits)

\* a length, or cap where the length is cap or more
Capped(n, cap) == IF n[3] # 0 \/ n[4] # 0 THEN cap ELSE Min(AsNumber(n), cap)

\* step 3's test: bytes_written_since_chunk_start + approx >= flush_every
\* with approx = key.len() + 5 + value.len()
ApproxFills(since, k, v, flush_every) ==
    since + Min(Capped(k, flush_every) + 5 + Capped(v, flush_every), flush_every)
        >= flush_every

WriterV2Init ==
    /\ Apart
    /\ \E fe \in FlushPool :
           obj = [is |-> "writer", flush_every |-> fe, sparse_index |-> <<>>, bloom |-> {},
                  records |-> <<>>, items |-> 0, offset |-> 0, since |-> 0, closed |-> 0,
                  calls |-> 0, k |-> <<0, 0, 0, 0>>, v |-> <<0, 0, 0, 0>>, out |-> "Ok",
                  st |-> "open"]

\* steps 1 to 6 of set on the writer o for the key numbered key
set_steps(o, key, k, v) ==
    LET entry == [key |-> key, off |-> o.offset]
        o3 == IF o.items = 0 THEN [o EXCEPT !.sparse_index = Append(@, entry)]
              ELSE IF ApproxFills(o.since, k, v, o.flush_every)
              THEN [o EXCEPT !.closed = @ + 1, !.since = 0,
                             !.sparse_index = Append(@, entry)]
              ELSE o
        o4 == [o3 EXCEPT !.bloom = @ \cup {key}]
        h == KVLength_new(k, v)
        size == KVLength_encoded_size + AsNumber(k) + AsNumber(v)
    IN IF h.tag # "Ok" THEN [o4 EXCEPT !.out = h.tag]
       ELSE [o4 EXCEPT !.records = Append(@, [key |-> key, header |-> h]),
                       !.offset = @ + size, !.since = @ + size,
                       !.items = @ + 1, !.out = "Ok"]

\* set(key, value): the caller's next key, of length k, with a value of length v
SetV2(k, v) ==
    /\ obj.is = "writer"
    /\ obj.st = "open"
    /\ obj.calls < MaxSetCalls
    /\ obj' = [set_steps(obj, obj.calls + 1, k, v) EXCEPT !.calls = obj.calls + 1,
                                                           !.k = k, !.v = v]
    /\ UNCHANGED <<disk, wbuf, fpos, w, rd, last, held, checked, caches, mutex, entries, th,
                   header, call>>

\* finish(): the index and the filter are written as they stand
FinishV2 ==
    /\ obj.is = "writer"
    /\ obj.st = "open"
    /\ obj' = [obj EXCEPT !.st = "finished", !.closed = @ + 1]
    /\ UNCHANGED <<disk, wbuf, fpos, w, rd, last, held, checked, caches, mutex, entries, th,
                   header, call>>

WriterV2Next ==
    \/ \E k \in SetLengths, v \in SetLengths : SetV2(k, v)
    \/ FinishV2

SpecSet == WriterV2Init /\ [][WriterV2Next]_vars

\* a length has a nonzero limb above the first limbs ones
Exceeds(n, limbs) == \E i \in (limbs + 1)..USizeLimbs : n[i] # 0

\* the step is a set call that failed because of a length
SetFailed == /\ obj'.calls = obj.calls + 1
             /\ obj'.out \in {"KeyTooLong", "ValueTooLong"}

\* what a set call may not touch when it emits nothing
NothingEmitted == /\ obj'.records = obj.records
                  /\ obj'.items = obj.items
                  /\ obj'.offset = obj.offset

MaxCount == 2
MaxMoved == 3

\* 0, 1, u64::MAX - 1 and u64::MAX
OffsetPool ==
    {[i \in 1..USizeLimbs |-> 0],
     [i \in 1..USizeLimbs |-> IF i = 1 THEN 1 ELSE 0],
     [i \in 1..USizeLimbs |-> IF i = 1 THEN LimbMax - 1 ELSE LimbMax],
     [i \in 1..USizeLimbs |-> LimbMax]}

\* the carry into limb i of a + l, for l below one limb
CarryInto(a, l, i) ==
    IF i = 1 THEN l
    ELSE IF \A j \in 2..(i - 1) : a[j] = LimbMax THEN (a[1] + l) \div (LimbMax + 1)
    ELSE 0

\* offset + l in the offset's width, with the carry out of it
offset_plus(a, l) ==
    [val |-> [i \in 1..USizeLimbs |-> (a[i] + CarryInto(a, l, i)) % (LimbMax + 1)],
     carry |-> CarryInto(a, l, USizeLimbs + 1) > 0]

\* an offset that grows by what was asked, not by what was moved
pos_moved_asked(o, asked, l) ==
    LET sum == offset_plus(o.offset, asked)
    IN IF sum.carry /\ o.checks THEN [o EXCEPT !.inner = @ + l, !.out = "Panic"]
       ELSE [o EXCEPT !.offset = sum.val, !.sum = @ + l, !.inner = @ + l, !.out = "Ok"]

\* let l = self.w.write(buf)?; self.offset += l as u64; Ok(l)
pos_moved(o, asked, l) ==
    LET sum == offset_plus(o.offset, l)
    IN IF sum.carry /\ o.checks THEN [o EXCEPT !.inner = @ + l, !.out = "Panic"]
       ELSE [o EXCEPT !.offset = sum.val, !.sum = @ + l, !.inner = @ + l, !.out = "Ok"]

\* PosWriter::new(w, offset), PosReader::new(r, offset)
PosInit ==
    /\ Apart
    /\ \E kind \in {"PosWriter", "PosReader"}, offset \in OffsetPool, checks \in BOOLEAN :
           obj = [is |-> "pos", kind |-> kind, checks |-> checks, base |-> offset,
                  offset |-> offset, sum |-> 0, inner |-> 0, op |-> "new", out |-> "Ok",
                  gone |-> FALSE]

PosLive == obj.is = "pos" /\ ~obj.gone /\ obj.out # "Panic"

PosEnds(next, op) ==
    /\ obj' = [next EXCEPT !.op = op]
    /\ UNCHANGED <<disk, wbuf, fpos, w, rd, last, held, checked, caches, mutex, entries, th,
                   header, call>>

\* Write::write(buf) with buf.len() = asked: the stream takes l bytes or fails
PosWrite(asked, l, io) ==
    /\ PosLive
    /\ obj.kind = "PosWriter"
    /\ l <= asked
    /\ obj.inner + l <= MaxMoved
    /\ PosEnds(IF io.ok THEN pos_moved(obj, asked, l) ELSE [obj EXCEPT !.out = "Io"], "write")

\* Read::read(buf) with buf.len() = asked: the stream gives l bytes or fails
PosRead(asked, l, io) ==
    /\ PosLive
    /\ obj.kind = "PosReader"
    /\ l <= asked
    /\ obj.inner + l <= MaxMoved
    /\ PosEnds(IF io.ok THEN pos_moved(obj, asked, l) ELSE [obj EXCEPT !.out = "Io"], "read")

\* Write::flush: self.w.flush()
PosFlush(io) ==
    /\ PosLive
    /\ obj.kind = "PosWriter"
    /\ PosEnds([obj EXCEPT !.out = IF io.ok THEN "Ok" ELSE "Io"], "flush")

\* PosWriter::reset_offset(offset)
PosResetOffset(offset) ==
    /\ PosLive
    /\ obj.kind = "PosWriter"
    /\ PosEnds([obj EXCEPT !.offset = offset, !.base = offset, !.sum = 0, !.out = "Ok"],
               "reset_offset")

\* into_inner(self) hands the stream back
PosIntoInner ==
    /\ PosLive
    /\ PosEnds([obj EXCEPT !.gone = TRUE, !.out = "Ok"], "into_inner")

PosNext ==
    \/ \E asked \in 0..MaxCount, l \in 0..MaxCount, io \in IoPool : PosWrite(asked, l, io)
    \/ \E asked \in 0..MaxCount, l \in 0..MaxCount, io \in IoPool : PosRead(asked, l, io)
    \/ \E io \in IoPool : PosFlush(io)
    \/ \E offset \in OffsetPool : PosResetOffset(offset)
    \/ PosIntoInner

SpecPos == PosInit /\ [][PosNext]_vars

\* a step of a wrapper that is a failed write or read, or a flush
PosFailedOrFlush == obj'.op = "flush" \/ (obj'.op \in {"write", "read"} /\ obj'.out = "Io")

\* what holds of every step whatever the offset: a failed call and a flush
\* leave the offset and the stream where they were, reset_offset sets the
\* offset and does not touch the stream, and a call that returns a count
\* moved the stream by that count
PosSteps ==
    /\ PosFailedOrFlush => (obj'.offset = obj.offset /\ obj'.inner = obj.inner /\
                            obj'.sum = obj.sum)
    /\ obj'.op = "reset_offset" => (obj'.offset = obj'.base /\ obj'.inner = obj.inner)
    /\ (obj'.op \in {"write", "read"} /\ obj'.out = "Ok") =>
           obj'.inner - obj.inner = obj'.sum - obj.sum

\* a call overflowed the offset of a build with overflow checks: it
\* panicked after the stream had moved and left the offset as it was
PosPanicked ==
    /\ obj.checks
    /\ obj'.offset = obj.offset
    /\ obj'.sum = obj.sum
    /\ offset_plus(obj.offset, obj'.inner - obj.inner).carry

EmptyTable == w.st = "finished" /\ w.written = <<>>

\* the reader variant can take a table of this compression: the mmap-only
\* reader takes uncompressed tables
Compatible(variant) == variant = "M" => w.comp = CompressionNone

\* C37 (empty table): a table finished without any set is opened by every
\* compatible reader variant under every ReadOptions, and every get on it
\* returns None, with and without the Bloom check
EmptyTableReadsNone ==
    EmptyTable =>
        \A variant \in Variants, opts \in ReadOptionsPool :
            Compatible(variant) =>
                LET r == reader_new(disk, variant, opts)
                IN /\ r.st = "ready"
                   /\ \A key \in QueryPool, first \in ShortReadPool,
                         options \in GetOptionsPool \cup {NoOptions} :
                          get_with_options(r, disk, key, options, first, checked).res = None

\* a reader of an empty table was asked for a key without the Bloom check
\* and answered None
EmptyTableAsked ==
    /\ EmptyTable
    /\ w.meta.items = 0
    /\ rd.st = "ready"
    /\ rd.index = <<>>
    /\ rd.meta.compression = CompressionZlib
    /\ ~rd.use_bloom
    /\ last.key # <<>>
    /\ last.res = None

(***************************************************************************)
(* The sorted key generators (utils/sorted_bytes_iterator.rs and           *)
(* sstable/sorted_string_iterator.rs).  buf, current, first, last, counter *)
(* and limit are the fields of the struct (SortedStringIterator has no     *)
(* counter and no limit: both stay 0); yielded lists what next() has       *)
(* returned since new or reset, ended tells that a next() returned None,   *)
(* after counts the calls that returned None since, and late tells that a  *)
(* call after a None returned a string.                                    *)
(***************************************************************************)
\* const FIRST: u8 = b'a'
FIRST == 97

\* the longest keys made, and the calls made after the first None
MaxLength == 2
MaxAfter == 2

\* the bytes first and last are drawn from
AlphabetPool == (FIRST - 1)..(FIRST + 2)

\* limit: none, or one that stops the generator early
LimitPool == {0, 1, 3}

\* SortedBytesIterator::new_first_last fills buf with first,
\* SortedStringIterator::new_first_last with FIRST
new_first_last(kind, length, first_byte, last_byte, limit) ==
    [is |-> "iter", kind |-> kind,
     buf |-> [i \in 1..length |-> IF kind = "String" THEN FIRST ELSE first_byte],
     current |-> length, first |-> first_byte, last |-> last_byte, counter |-> 0, limit |-> limit,
     yielded |-> <<>>, ended |-> FALSE, late |-> FALSE, after |-> 0, resets |-> 0]

\* the loop of next(): the byte at current is made larger and the bytes
\* after it are set to first, or current moves left; at 0 the loop returns
\* None.  current counts from 0 as in the source
RECURSIVE next_loop(_, _, _, _)
next_loop(buf, current, first_byte, last_byte) ==
    IF buf[current + 1] < last_byte
    THEN [some |-> TRUE, current |-> Len(buf) - 1,
          buf |-> [i \in 1..Len(buf) |-> IF i = current + 1 THEN buf[i] + 1
                                         ELSE IF i > current + 1 THEN first_byte
                                         ELSE buf[i]]]
    ELSE IF current = 0 THEN [some |-> FALSE, current |-> 0, buf |-> buf]
    ELSE next_loop(buf, current - 1, first_byte, last_byte)

\* the iterator after a next() that returned a string, or None
iter_some(o, buf, current) ==
    [o EXCEPT !.buf = buf, !.current = current,
              !.counter = IF o.kind = "Bytes" THEN @ + 1 ELSE @,
              !.yielded = Append(@, buf), !.late = o.late \/ o.ended]
iter_none(o, current) ==
    [o EXCEPT !.current = current, !.ended = TRUE, !.after = IF o.ended THEN @ + 1 ELSE @]

\* SortedBytesIterator::next, SortedStringIterator::next
iter_next(o) ==
    IF o.kind = "Bytes" /\ o.limit > 0 /\ o.counter = o.limit THEN iter_none(o, o.current)
    ELSE IF o.current = Len(o.buf) THEN iter_some(o, o.buf, Len(o.buf) - 1)
    ELSE LET l == next_loop(o.buf, o.current, o.first, o.last)
         IN IF l.some THEN iter_some(o, l.buf, l.current) ELSE iter_none(o, l.current)

\* new_first_last with length > 0 and last > first; SortedStringIterator
\* takes no limit
IterInit ==
    /\ Apart
    /\ \E kind \in {"Bytes", "String"}, length \in 1..MaxLength,
          first_byte \in AlphabetPool, last_byte \in AlphabetPool, limit \in LimitPool :
           /\ first_byte < last_byte
           /\ kind = "String" => limit = 0
           /\ obj = new_first_last(kind, length, first_byte, last_byte, limit)

IterEnds(next) ==
    /\ obj' = next
    /\ UNCHANGED <<disk, wbuf, fpos, w, rd, last, held, checked, caches, mutex, entries, th,
                   header, call>>

\* next(), called up to MaxAfter times more once it has returned None
IterNext ==
    /\ obj.is = "iter"
    /\ ~obj.late
    /\ obj.after < MaxAfter
    /\ IterEnds(iter_next(obj))

\* SortedBytesIterator::reset
IterReset ==
    /\ obj.is = "iter"
    /\ obj.kind = "Bytes"
    /\ obj.resets = 0
    /\ IterEnds([obj EXCEPT !.buf = [i \in 1..Len(obj.buf) |-> obj.first],
                            !.current = Len(obj.buf), !.counter = 0,
                            !.yielded = <<>>, !.ended = FALSE, !.after = 0, !.resets = 1])

IterNextStep == IterNext \/ IterReset

SpecIter == IterInit /\ [][IterNextStep]_vars

RECURSIVE Power(_, _)
Power(m, e) == IF e = 0 THEN 1 ELSE m * Power(m, e - 1)

\* the k-th (from 0) string of the given length over [first, last] in
\* lexicographic order
NthString(k, length, first_byte, last_byte) ==
    LET m == last_byte - first_byte + 1
    IN [i \in 1..length |-> first_byte + ((k \div Power(m, length - i)) % m)]

\* the number of strings the generator is to yield
ToYield(o) ==
    LET all == Power(o.last - o.first + 1, Len(o.buf))
    IN IF o.limit > 0 THEN Min(o.limit, all) ELSE all

\* C39 (sorted key generator): the strings next() has returned are the
\* first strings of the given length over [first, last] in ascending
\* lexicographic order, each once, from `length` copies of first on; next()
\* returns None only after the last of them (`length` copies of last, or
\* the limit-th string), and after a None it never returns a string
SortedKeysInOrder ==
    obj.is = "iter" =>
        /\ Len(obj.yielded) <= ToYield(obj)
        /\ \A i \in 1..Len(obj.yielded) :
               obj.yielded[i] = NthString(i - 1, Len(obj.buf), obj.first, obj.last)
        /\ obj.ended => Len(obj.yielded) = ToYield(obj)
        /\ ~obj.late

\* the same of SortedBytesIterator alone
SortedBytesInOrder == (obj.is = "iter" /\ obj.kind = "Bytes") => SortedKeysInOrder

(***************************************************************************)
(* A ConcurrentLRUCache on its own (concurrent_lru.rs), made with any      *)
(* shard count a usize can give and asked for offsets by one thread.       *)
(***************************************************************************)
\* the largest shard count tried, and the offsets asked for
MaxShards == 3
MaxOffset == 4

\* ConcurrentLRUCache::new(shards, cache)
ShardsInit ==
    /\ Apart
    /\ \E count \in 0..MaxShards, cache \in CachePool :
           obj = [is |-> "lru", count |-> count, c |-> NewCache(cache, count),
                  offset |-> 0, out |-> Idle.res, calls |-> 0]

\* get_or_insert(offset, func), func returning the chunk or an error
GetOrInsert(offset, ok) ==
    /\ obj.is = "lru"
    /\ obj.out # Panic
    /\ obj.calls < MaxOffset
    /\ LET g == get_or_insert(obj.c, offset, IF ok THEN Some(<<offset>>) ELSE Err("Io"))
       IN obj' = [obj EXCEPT !.c = g.c, !.offset = offset, !.out = g.res, !.calls = @ + 1]
    /\ UNCHANGED <<disk, wbuf, fpos, w, rd, last, held, checked, caches, mutex, entries, th,
                   header, call>>

ShardsNext == \E offset \in 0..MaxOffset, ok \in BOOLEAN : GetOrInsert(offset, ok)

SpecShards == ShardsInit /\ [][ShardsNext]_vars

\* the shards of the cache that hold an entry for the offset
ShardsHolding(c, offset) == {i \in 1..Len(c.shards) : LruHas(c.shards[i], offset)}

\* C40 (shard selection): for every shard count the cache is made with,
\* get_or_insert computes its shard index without a panic, the entry of an
\* offset is in the shard its hash selects, which is one of the N shards,
\* and in no other
ShardIndexInBounds ==
    (obj.is = "lru" /\ obj.c.on) =>
        /\ obj.out # Panic
        /\ \A offset \in 0..MaxOffset :
               ShardsHolding(obj.c, offset) # {} =>
                   /\ ShardOf(offset, obj.count) \in 1..obj.count
                   /\ ShardsHolding(obj.c, offset) = {ShardOf(offset, obj.count)}

\* the same of the caches made with one shard or more
ShardIndexInBoundsFromOne == obj.count >= 1 => ShardIndexInBounds

====
